---- MODULE Spec2Model ----
(***************************************************************************)
(* Model of the neodym kernel's memory subsystem and system-call dispatch: *)
(* the page provider, the page allocator with its intrusive free list,     *)
(* PageBox, the slab-style small-object allocator, the address-space       *)
(* mapper and the SYSCALL trampoline.                                      *)
(*                                                                         *)
(* Addresses are byte addresses (integers).  A page-table, a free-list     *)
(* node and a slab page are kept in separate maps keyed by the physical    *)
(* frame they live in.                                                     *)
(***************************************************************************)
EXTENDS Integers, Sequences, FiniteSets, TLC

\* ------------------------------------------------------------------------
\* Bounds of the model (not program constants).
\* ------------------------------------------------------------------------

\* Greatest number of PageProvider::allocate calls in one behaviour.
MaxProviderCalls == 5

\* Greatest number of frames the direct callers and PageBoxes hold at once.
MaxHeld == 3

\* Capacity of the pages array of a free-list node.  The kernel's value is
\* (4096 - 3 * 8) / 8 = 509; the model shrinks it so that full nodes and
\* second nodes are reached.
MAX_PAGES == 2

\* ------------------------------------------------------------------------
\* Program constants.
\* ------------------------------------------------------------------------

PAGE_SIZE == 4096

MAX_SEGMENTS == 16

\* The null pointer of AtomicPtr<FreePageListNode>.
NULL == 0

\* ------------------------------------------------------------------------
\* Small helpers.
\* ------------------------------------------------------------------------

Min(a, b) == IF a < b THEN a ELSE b

Range(s) == {s[i] : i \in 1..Len(s)}

\* Number of indices of s holding x.
Count(s, x) == Cardinality({i \in 1..Len(s) : s[i] = x})

\* ------------------------------------------------------------------------
\* State.
\* ------------------------------------------------------------------------

VARIABLES
    usable,      \* the memory map the bootloader reported
    segments,    \* PageProvider.segments (after merging)
    index,       \* PageProvider.index
    free_pages,  \* PageAllocator.free_pages: head of the free list
    nodes,       \* frame -> [next, pages]: the FreePageListNodes in memory
    provided,    \* history: the frames PageProvider::allocate returned
    calls,       \* history: number of PageProvider::allocate calls
    held,        \* frames the direct callers of the page allocator hold
    boxes,       \* frames of the live PageBoxes
    last,        \* the last operation and its result
    mapper,      \* "none", "live" or "dropped": the MemoryMapper's life
    l4_table,    \* MemoryMapper.l4_table
    tables,      \* frame -> (index -> entry): the page tables in memory
    mapper_allocs, \* history: the frames the mapper took from the allocator
    dropped,     \* history: the frames Drop for MemoryMapper deallocated
    ops,         \* history: number of operations on the mapper or the small-object allocator
    debug_build, \* TRUE: overflow checks and debug assertions are compiled in
    slab_list,   \* PageBasedAllocator.head: the PageMetaNodes and their pages
    live,        \* the outstanding blocks of the small-object allocator
    mem,         \* 64-byte slot number -> what was last written there (a tag)
    sys,         \* the last system call: its registers on entry and what the dispatch did
    sys_count,   \* history: number of system calls made
    handler_calls, \* history: the handlers invoked, with their arguments and their result
    paging,      \* setup_paging: its arguments, its position and its current range
    boot,        \* entry_point_inner: its position, its inputs and the steps finished
    cpu,         \* the interrupt flag and the position of the logger's closure
    threads,     \* the callers of the page allocator that run concurrently
    container    \* a container of the array crate: a BinaryHeap or a Slab

mapperVars == <<mapper, l4_table, tables, mapper_allocs, dropped, ops>>

slabVars == <<debug_build, slab_list, live, mem>>

sysVars == <<sys, sys_count, handler_calls>>

bootVars == <<paging, boot, cpu, threads, container>>

vars == <<usable, segments, index, free_pages, nodes, provided, calls, held, boxes, last,
          mapper, l4_table, tables, mapper_allocs, dropped, ops,
          debug_build, slab_list, live, mem, sys, sys_count, handler_calls, paging, boot, cpu, threads,
          container>>

\* The mapper before MemoryMapper::new.
NoMapper ==
    /\ mapper = "none"
    /\ l4_table = 0
    /\ tables = <<>>
    /\ mapper_allocs = <<>>
    /\ dropped = <<>>
    /\ ops = 0

\* The small-object allocator after PageBasedAllocator::new, unused.
NoSlab ==
    /\ debug_build = FALSE
    /\ slab_list = <<>>
    /\ live = <<>>
    /\ mem = <<>>

\* No system call made yet.
NoSys == [num |-> 0, rdi |-> 0, rsi |-> 0, rdx |-> 0,
          read |-> -1, handler |-> "none", error |-> "none", rax |-> 0]

NoSyscall ==
    /\ sys = NoSys
    /\ sys_count = 0
    /\ handler_calls = <<>>

\* setup_paging not called.
NoRange == [virt |-> 0, phys |-> 0, amount |-> 0, flags |-> 0]

NoPaging ==
    paging = [pc |-> "boot", upper_bound |-> 0, kernel_phys |-> 0, kernel_virt |-> 0,
              kernel_size |-> 0, range |-> NoRange, cr3 |-> 0]

\* SYS_INFO before SysInfoTok::initialize (MaybeUninit::uninit()).
Uninit == [value |-> [uninit |-> TRUE], writes |-> 0]

NoBootstrap ==
    boot = [pc |-> "off", env |-> "none", log |-> <<>>, iflag |-> FALSE,
            sys_info |-> Uninit, read |-> <<>>]

\* The logger's closure not entered, nothing logged.
NoLog == [iflag |-> FALSE, pc |-> "idle", restore_interrupts |-> FALSE, left |-> 0,
          records |-> 0, interrupts |-> 0, in_write |-> 0, bytes_with_if |-> 0]

NoLogger == cpu = NoLog

\* No concurrent caller of the page allocator.
NoThreads == threads = <<>>

\* No container of the array crate in use.
NoContainer == container = <<>>

\* ------------------------------------------------------------------------
\* PageProvider.
\* ------------------------------------------------------------------------

Seg(b, l) == [base |-> b, length |-> l]

\* MergeSegments with `last.length = segment.length` for `+=`.
RECURSIVE MergeSegments_assign(_, _)
MergeSegments_assign(iter, acc) ==
    IF iter = <<>> THEN acc
    ELSE LET segment == Head(iter) IN
         IF acc # <<>> /\ acc[Len(acc)].base + acc[Len(acc)].length = segment.base
         THEN MergeSegments_assign(Tail(iter),
                  [acc EXCEPT ![Len(acc)].length = segment.length])
         ELSE MergeSegments_assign(Tail(iter), Append(acc, segment))

\* PageProvider::new: take at most MAX_SEGMENTS segments, merging a segment
\* into the previous one when it starts where the previous one ends.
RECURSIVE MergeSegments(_, _)
MergeSegments(iter, acc) ==
    IF iter = <<>> THEN acc
    ELSE LET segment == Head(iter) IN
         IF acc # <<>> /\ acc[Len(acc)].base + acc[Len(acc)].length = segment.base
         THEN MergeSegments(Tail(iter),
                  [acc EXCEPT ![Len(acc)].length = @ + segment.length])
         ELSE MergeSegments(Tail(iter), Append(acc, segment))

PageProvider_new(iter) ==
    MergeSegments(SubSeq(iter, 1, Min(Len(iter), MAX_SEGMENTS)), <<>>)

\* The segment scan of PageProvider::allocate for the claimed ordinal.
\* ok: the frame found; otherwise rem is what is left of page_index after
\* every segment's page count was subtracted.
\* Locate with the segment test off by one (<= for <).
RECURSIVE Locate_offByOne(_, _)
Locate_offByOne(segs, page_index) ==
    IF segs = <<>> THEN [ok |-> FALSE, addr |-> 0, rem |-> page_index]
    ELSE LET page_count == Head(segs).length \div 4096 IN
         IF page_index <= page_count
         THEN [ok |-> TRUE, addr |-> Head(segs).base + page_index * 4096, rem |-> 0]
         ELSE Locate_offByOne(Tail(segs), page_index - page_count)

RECURSIVE Locate(_, _)
Locate(segs, page_index) ==
    IF segs = <<>> THEN [ok |-> FALSE, addr |-> 0, rem |-> page_index]
    ELSE LET page_count == Head(segs).length \div 4096 IN
         IF page_index < page_count
         THEN [ok |-> TRUE, addr |-> Head(segs).base + page_index * 4096, rem |-> 0]
         ELSE Locate(Tail(segs), page_index - page_count)

\* PageProvider::allocate, as a function of the counter: the result and the
\* value of the counter afterwards (fetch_add, then on exhaustion the store
\* of the local page_index).
PageProvider_allocate(segs, idx) ==
    LET r == Locate(segs, idx) IN
    IF r.ok THEN [ok |-> TRUE, addr |-> r.addr, index |-> idx + 1]
            ELSE [ok |-> FALSE, addr |-> 0, index |-> r.rem]

\* ------------------------------------------------------------------------
\* PageAllocator.
\* ------------------------------------------------------------------------

FreePageListNode_new == [next |-> NULL, pages |-> <<>>]

\* The traversal of PageAllocator::allocate (single caller: every try_lock
\* succeeds).  hit: the node whose pages array yields a frame; miss: the
\* end of the list was reached; loop: the traversal never ends.
RECURSIVE AllocWalk(_, _, _)
AllocWalk(cur, nds, seen) ==
    IF cur = NULL THEN [kind |-> "miss", node |-> NULL]
    ELSE IF cur \in seen THEN [kind |-> "loop", node |-> NULL]
    ELSE IF Len(nds[cur].pages) > 0 THEN [kind |-> "hit", node |-> cur]
    ELSE AllocWalk(nds[cur].next, nds, seen \cup {cur})

\* The traversal of PageAllocator::deallocate.  push: the node that accepts
\* the frame; tail: `at` is the node whose next pointer ended the list
\* (NULL when it is the head pointer itself).
RECURSIVE DeallocWalk(_, _, _, _)
DeallocWalk(cur, at, nds, seen) ==
    IF cur = NULL THEN [kind |-> "tail", node |-> at]
    ELSE IF cur \in seen THEN [kind |-> "loop", node |-> NULL]
    ELSE IF Len(nds[cur].pages) < MAX_PAGES THEN [kind |-> "push", node |-> cur]
    ELSE DeallocWalk(nds[cur].next, cur, nds, seen \cup {cur})

\* PageAllocator::allocate as a function of the allocator's state: the
\* result and the state afterwards.
PageAllocator_allocate(st) ==
    LET w == AllocWalk(st.free_pages, st.nodes, {}) IN
    IF w.kind = "loop" THEN [res |-> "hang", addr |-> 0, st |-> st, fresh |-> FALSE]
    ELSE IF w.kind = "hit" THEN
        LET pg == st.nodes[w.node].pages IN
        [res |-> "ok", addr |-> pg[Len(pg)], fresh |-> FALSE,
         st |-> [st EXCEPT !.nodes[w.node].pages = SubSeq(pg, 1, Len(pg) - 1)]]
    ELSE
        LET p == PageProvider_allocate(st.segments, st.index) IN
        [res |-> IF p.ok THEN "ok" ELSE "oom", addr |-> p.addr, fresh |-> TRUE,
         st |-> [st EXCEPT !.index = p.index,
                           !.calls = @ + 1,
                           !.provided = IF p.ok THEN Append(@, p.addr) ELSE @]]

\* PageAllocator::deallocate.
PageAllocator_deallocate(st, addr) ==
    LET w == DeallocWalk(st.free_pages, NULL, st.nodes, {}) IN
    IF w.kind = "loop" THEN [res |-> "hang", st |-> st]
    ELSE IF w.kind = "push" THEN
        [res |-> "ok",
         st |-> [st EXCEPT !.nodes[w.node].pages = Append(@, addr)]]
    ELSE
        \* The frame itself becomes the new last node.
        LET written == [x \in DOMAIN st.nodes \cup {addr} |->
                           IF x = addr THEN FreePageListNode_new ELSE st.nodes[x]]
        IN [res |-> "ok",
            st |-> IF w.node = NULL
                   THEN [st EXCEPT !.nodes = written, !.free_pages = addr]
                   ELSE [st EXCEPT !.nodes = [written EXCEPT ![w.node].next = addr]]]

\* The allocator's state as one record, and back.
PageState ==
    [segments |-> segments, index |-> index, free_pages |-> free_pages,
     nodes |-> nodes, provided |-> provided, calls |-> calls]

SetPageState(st) ==
    /\ segments' = st.segments
    /\ index' = st.index
    /\ free_pages' = st.free_pages
    /\ nodes' = st.nodes
    /\ provided' = st.provided
    /\ calls' = st.calls

\* The state PageProvider::new and PageAllocatorTok::initialize leave.
SetPageStateInit(map) ==
    /\ segments = PageProvider_new(map)
    /\ index = 0
    /\ free_pages = NULL
    /\ nodes = <<>>
    /\ provided = <<>>
    /\ calls = 0

\* ------------------------------------------------------------------------
\* Memory maps the bootloader may report (sorted, page-aligned, disjoint).
\* ------------------------------------------------------------------------

MemoryMaps ==
    { <<>>,
      <<Seg(4096, 4096)>>,
      <<Seg(4096, 4096), Seg(8192, 8192)>>,
      <<Seg(4096, 8192), Seg(20480, 4096)>> }

\* The frames of a segment list.
FramesOf(segs) ==
    UNION { { segs[i].base + k * 4096 : k \in 0..(segs[i].length \div 4096 - 1) }
            : i \in 1..Len(segs) }

TotalPages(segs) == Cardinality(FramesOf(segs))

\* ------------------------------------------------------------------------
\* The page allocator driven by its direct callers and by PageBoxes.
\* ------------------------------------------------------------------------

NoOp == [op |-> "none", res |-> "none", addr |-> 0, fresh |-> FALSE, virt |-> 0]

\* The kernel stopped: a call never returned, panicked, or ran into
\* unreachable_unchecked.
Hung == last.res \in {"hang", "panic", "ub"}

InitPages ==
    /\ usable \in MemoryMaps
    /\ SetPageStateInit(usable)
    /\ held = <<>>
    /\ boxes = <<>>
    /\ last = NoOp
    /\ NoMapper
    /\ NoSlab
    /\ NoSyscall
    /\ NoPaging
    /\ NoBootstrap
    /\ NoLogger
    /\ NoThreads
    /\ NoContainer

\* A caller allocates a frame and keeps it.
Allocate ==
    /\ ~Hung
    /\ calls < MaxProviderCalls
    /\ Len(held) + Len(boxes) < MaxHeld
    /\ LET r == PageAllocator_allocate(PageState) IN
        /\ SetPageState(r.st)
        /\ held' = IF r.res = "ok" THEN Append(held, r.addr) ELSE held
        /\ last' = [op |-> "allocate", res |-> r.res, addr |-> r.addr, fresh |-> r.fresh, virt |-> 0]
    /\ UNCHANGED <<bootVars, sysVars, usable, boxes, mapperVars, slabVars>>

Remove(s, i) == SubSeq(s, 1, i - 1) \o SubSeq(s, i + 1, Len(s))

\* A caller gives back a frame it holds.
Deallocate ==
    /\ ~Hung
    /\ \E i \in 1..Len(held) :
        LET r == PageAllocator_deallocate(PageState, held[i]) IN
        /\ SetPageState(r.st)
        /\ held' = IF r.res = "ok" THEN Remove(held, i) ELSE held
        /\ last' = [op |-> "deallocate", res |-> r.res, addr |-> held[i], fresh |-> FALSE, virt |-> 0]
    /\ UNCHANGED <<bootVars, sysVars, usable, boxes, mapperVars, slabVars>>

\* create_box: one frame of the page allocator, or its error.
create_box(st) == PageAllocator_allocate(st)

\* destroy_box: the frame goes back to the page allocator.
destroy_box(st, page) == PageAllocator_deallocate(st, page)

\* PageBox::new / zeroed / new_uninit: a box exists only when create_box
\* gave a frame; on Err the value is handed back and nothing is held.
PageBox_new ==
    /\ ~Hung
    /\ calls < MaxProviderCalls
    /\ Len(held) + Len(boxes) < MaxHeld
    /\ LET r == create_box(PageState) IN
        /\ SetPageState(r.st)
        /\ boxes' = IF r.res = "ok" THEN Append(boxes, r.addr) ELSE boxes
        /\ last' = [op |-> "box_new", res |-> r.res, addr |-> r.addr, fresh |-> r.fresh, virt |-> 0]
    /\ UNCHANGED <<bootVars, sysVars, usable, held, mapperVars, slabVars>>

\* Drop for PageBox: drop_in_place, then destroy_box.  `returned` lists the
\* frames handed to destroy_box.
PageBox_drop ==
    /\ ~Hung
    /\ \E i \in 1..Len(boxes) :
        LET r == destroy_box(PageState, boxes[i]) IN
        /\ SetPageState(r.st)
        /\ boxes' = IF r.res = "ok" THEN Remove(boxes, i) ELSE boxes
        /\ last' = [op |-> "box_drop", res |-> r.res, addr |-> boxes[i], fresh |-> FALSE,
                    virt |-> 0, returned |-> <<boxes[i]>>]
    /\ UNCHANGED <<bootVars, sysVars, usable, held, mapperVars, slabVars>>

\* PageBox::into_inner where the box is dropped when the function ends.
PageBox_into_inner_dropped(st, page) ==
    LET d == destroy_box(st, page) IN
    IF d.res # "ok" THEN [res |-> d.res, st |-> d.st, returned |-> <<page>>]
    ELSE LET e == destroy_box(d.st, page) IN
         [res |-> e.res, st |-> e.st, returned |-> <<page, page>>]

\* PageBox::into_inner: the box is wrapped in ManuallyDrop, so Drop never
\* runs for it; the value is read out and destroy_box is called.
PageBox_into_inner(st, page) ==
    LET d == destroy_box(st, page) IN
    [res |-> d.res, st |-> d.st, returned |-> <<page>>]

\* A holder consumes one of its boxes with PageBox::into_inner.
IntoInner ==
    /\ ~Hung
    /\ \E i \in 1..Len(boxes) :
        LET r == PageBox_into_inner(PageState, boxes[i]) IN
        /\ SetPageState(r.st)
        /\ boxes' = IF r.res = "ok" THEN Remove(boxes, i) ELSE boxes
        /\ last' = [op |-> "box_into_inner", res |-> r.res, addr |-> boxes[i],
                    fresh |-> FALSE, virt |-> 0, returned |-> r.returned]
    /\ UNCHANGED <<bootVars, sysVars, usable, held, mapperVars, slabVars>>

NextPages == Allocate \/ Deallocate \/ PageBox_new \/ PageBox_drop \/ IntoInner

SpecPages == InitPages /\ [][NextPages]_vars

\* ------------------------------------------------------------------------
\* Frame accounting.
\* ------------------------------------------------------------------------

\* The nodes reachable from the head of the free list.
RECURSIVE ListNodes(_, _, _)
ListNodes(cur, nds, seen) ==
    IF cur = NULL \/ cur \in seen THEN seen
    ELSE ListNodes(nds[cur].next, nds, seen \cup {cur})

FreeListNodes == ListNodes(free_pages, nodes, {})

\* The ordinal of a frame in the provider's segments: the number of frames
\* below it.
Ordinal(f) == Cardinality({g \in FramesOf(segments) : g < f})

\* The provider's unallocated pool: the frames whose ordinal the counter
\* has not reached.
InPool(f) == f \in FramesOf(segments) /\ Ordinal(f) >= index

B2N(b) == IF b THEN 1 ELSE 0

\* Occurrences of frame f in the pages arrays of the nodes of S.
RECURSIVE PagesCount(_, _)
PagesCount(S, f) ==
    IF S = {} THEN 0
    ELSE LET n == CHOOSE y \in S : TRUE
         IN Count(nodes[n].pages, f) + PagesCount(S \ {n}, f)

\* How many times the page allocator accounts for frame f: in the pool, in
\* the pages array of a reachable node, or as a reachable node.
InPagesOf(f) == PagesCount(FreeListNodes, f)

AllocatorAccounts(f) == B2N(InPool(f)) + InPagesOf(f) + B2N(f \in FreeListNodes)

\* ------------------------------------------------------------------------
\* Claims on the page provider and the page allocator.
\* ------------------------------------------------------------------------

\* C1: every successful PageProvider::allocate returns a 4 KiB-aligned frame
\* that no earlier call on the same provider returned, also after a call
\* that returned OutOfMemory.
C1_NeverReturnedTwice ==
    \A i \in 1..Len(provided) :
        /\ provided[i] % 4096 = 0
        /\ \A j \in 1..(i - 1) : provided[j] # provided[i]

C3_PairedNoLeak ==
    (held = <<>> /\ boxes = <<>>)
        => \A f \in FramesOf(usable) : AllocatorAccounts(f) = 1

\* ------------------------------------------------------------------------
\* Page-table entries (nd_x86_64::PageTableEntry).
\* ------------------------------------------------------------------------

PRESENT == 1

WRITABLE == 2

USER_ACCESSIBLE == 4

HUGE_PAGE == 128

\* PageTableFlags::USER_0, the first software-available bit of an entry.
OWNED == 512

UNUSED == 0

RECURSIVE BitOr(_, _)
BitOr(a, b) ==
    IF a = 0 THEN b
    ELSE IF b = 0 THEN a
    ELSE (IF a % 2 = 1 \/ b % 2 = 1 THEN 1 ELSE 0) + 2 * BitOr(a \div 2, b \div 2)

RECURSIVE Shr(_, _)
Shr(v, n) == IF n = 0 THEN v ELSE Shr(v \div 2, n - 1)

\* PageTableEntry::new: addr | flags.bits().
PageTableEntry_new(addr, flags) == BitOr(addr, flags)

\* PageTableEntry::addr: self.0 & 0x000f_ffff_ffff_f000 (entries of the
\* model stay below 2^52).
PageTableEntry_addr(e) == (e \div 4096) * 4096

\* PageTableEntry::flags: the flag bits of the word.
PageTableEntry_flags(e) == e % 1024

\* PageTableFlags::contains for a single-bit flag.
Contains(flags, bit) == (flags \div bit) % 2 = 1

\* ------------------------------------------------------------------------
\* Page tables in memory.
\* ------------------------------------------------------------------------

EmptyTable == [k \in {} |-> 0]

TableAt(tbls, f) == IF f \in DOMAIN tbls THEN tbls[f] ELSE EmptyTable

\* table.0[i]
Get(tbls, f, i) == IF i \in DOMAIN TableAt(tbls, f) THEN TableAt(tbls, f)[i] ELSE UNUSED

\* table.0[i] = e (only the entries that are not UNUSED are stored).
Put(tbls, f, i, e) ==
    LET old == TableAt(tbls, f)
        dom == (DOMAIN old \ {i}) \cup (IF e = UNUSED THEN {} ELSE {i})
        new == [k \in dom |-> IF k = i THEN e ELSE old[k]]
    IN [x \in DOMAIN tbls \cup {f} |-> IF x = f THEN new ELSE tbls[x]]

\* core::ptr::write_bytes(table, 0x00, 1)
Zero(tbls, f) == [x \in DOMAIN tbls \cup {f} |-> IF x = f THEN EmptyTable ELSE tbls[x]]

\* ------------------------------------------------------------------------
\* MemoryMapper.
\* ------------------------------------------------------------------------

\* The flags MemoryMapper::entry gives to non-leaf entries.
parent_flags == BitOr(BitOr(PRESENT, WRITABLE), BitOr(USER_ACCESSIBLE, OWNED))

\* The table index of a virtual address at a level (4 = PML4 .. 1 = PT) with
\* a wrong shift for the leaf level.
TableIndex_wrongShift(v, level) == Shr(v, 13 + 9 * (level - 1)) % 512

\* l4_idx .. l1_idx of MemoryMapper::entry: (virtual_address >> s) & 0o777
\* with s = 39, 30, 21, 12.
TableIndex(v, level) == Shr(v, 12 + 9 * (level - 1)) % 512

\* The loop of MemoryMapper::entry over the three upper levels: follow the
\* entry, or allocate and zero a table for an UNUSED entry.
RECURSIVE EntryWalk(_, _, _, _, _)
EntryWalk(st, tbls, table, idxs, allocs) ==
    IF idxs = <<>> THEN [res |-> "ok", st |-> st, tbls |-> tbls, table |-> table, allocs |-> allocs]
    ELSE LET i == Head(idxs)
             e == Get(tbls, table, i) IN
         IF e = UNUSED THEN
             LET a == PageAllocator_allocate(st) IN
             IF a.res # "ok"
             THEN [res |-> a.res, st |-> a.st, tbls |-> tbls, table |-> table, allocs |-> allocs]
             ELSE EntryWalk(a.st,
                            Put(Zero(tbls, a.addr), table, i, PageTableEntry_new(a.addr, parent_flags)),
                            a.addr, Tail(idxs), Append(allocs, a.addr))
         ELSE EntryWalk(st, tbls, PageTableEntry_addr(e), Tail(idxs), allocs)

\* MemoryMapper::entry: the level-1 table and the state after the walk.
MemoryMapper_entry(st, tbls, l4, v) ==
    EntryWalk(st, tbls, l4, <<TableIndex(v, 4), TableIndex(v, 3), TableIndex(v, 2)>>, <<>>)

\* create_mapping without the test of the entry: the entry is overwritten.
MemoryMapper_create_mapping_overwrite(st, tbls, l4, v, phys, flags) ==
    LET w == MemoryMapper_entry(st, tbls, l4, v) IN
    IF w.res # "ok" THEN [w EXCEPT !.table = 0]
    ELSE [w EXCEPT !.tbls = Put(w.tbls, w.table, TableIndex(v, 1),
                                PageTableEntry_new(phys, flags)),
                   !.table = phys]

\* MemoryMapper::create_mapping: the payload of AlreadyMapped, or the frame
\* of the entry written, is in the field `table` of the result.
MemoryMapper_create_mapping(st, tbls, l4, v, phys, flags) ==
    LET w == MemoryMapper_entry(st, tbls, l4, v)
        e == Get(w.tbls, w.table, TableIndex(v, 1)) IN
    IF w.res # "ok" THEN [w EXCEPT !.table = 0]
    ELSE IF e # UNUSED
    THEN [w EXCEPT !.res = "already_mapped", !.table = PageTableEntry_addr(e)]
    ELSE [w EXCEPT !.tbls = Put(w.tbls, w.table, TableIndex(v, 1),
                                PageTableEntry_new(phys, flags)),
                   !.table = phys]

\* MemoryMapper::allocate_mapping.
MemoryMapper_allocate_mapping(st, tbls, l4, v, flags) ==
    LET w == MemoryMapper_entry(st, tbls, l4, v)
        e == Get(w.tbls, w.table, TableIndex(v, 1)) IN
    IF w.res # "ok" THEN [w EXCEPT !.table = 0]
    ELSE IF e # UNUSED
    THEN [w EXCEPT !.res = "already_mapped", !.table = PageTableEntry_addr(e)]
    ELSE LET a == PageAllocator_allocate(w.st) IN
         IF a.res # "ok" THEN [w EXCEPT !.res = a.res, !.st = a.st, !.table = 0]
         ELSE [w EXCEPT !.st = a.st,
                        !.tbls = Put(w.tbls, w.table, TableIndex(v, 1),
                                     PageTableEntry_new(a.addr, BitOr(flags, OWNED))),
                        !.allocs = Append(w.allocs, a.addr),
                        !.table = a.addr]

\* The loop of MemoryMapper::map_kernel: one create_mapping per page of the
\* kernel image, with PRESENT | WRITABLE; the first error ends it.
RECURSIVE map_kernel_loop(_, _, _, _, _, _, _)
map_kernel_loop(st, tbls, l4, phys_addr, virt_addr, remainder, allocs) ==
    IF remainder <= 0 THEN [res |-> "ok", st |-> st, tbls |-> tbls, allocs |-> allocs]
    ELSE LET size == Min(remainder, 4096)
             r == MemoryMapper_create_mapping(st, tbls, l4, virt_addr, phys_addr,
                                              BitOr(PRESENT, WRITABLE)) IN
         IF r.res # "ok"
         THEN [res |-> r.res, st |-> r.st, tbls |-> r.tbls, allocs |-> allocs \o r.allocs]
         ELSE map_kernel_loop(r.st, r.tbls, l4, phys_addr + size, virt_addr + size,
                              remainder - size, allocs \o r.allocs)

\* MemoryMapper::map_kernel.
MemoryMapper_map_kernel(st, tbls, l4, info) ==
    map_kernel_loop(st, tbls, l4, info.kernel_phys_addr, info.kernel_virt_addr,
                    info.kernel_virt_end_addr - info.kernel_virt_addr, <<>>)

SetMin(S) == CHOOSE x \in S : \A y \in S : x <= y

\* drop_recursive of Drop for MemoryMapper: the addresses it passes to
\* PageAllocator::deallocate, in order.
RECURSIVE drop_recursive(_, _, _)
RECURSIVE DropEntries(_, _, _, _)
DropEntries(tbls, table, level, S) ==
    IF S = {} THEN <<>>
    ELSE LET i == SetMin(S) IN
         drop_recursive(tbls, PageTableEntry_addr(Get(tbls, table, i)), level - 1)
             \o DropEntries(tbls, table, level, S \ {i})

drop_recursive(tbls, table, level) ==
    LET owned == { i \in DOMAIN TableAt(tbls, table) :
                      /\ Get(tbls, table, i) # UNUSED
                      /\ Contains(PageTableEntry_flags(Get(tbls, table, i)), OWNED) }
    IN (IF level > 1 THEN DropEntries(tbls, table, level, owned) ELSE <<>>)
           \o <<PageTableEntry_addr(Get(tbls, table, 0))>>

\* A run of PageAllocator::deallocate calls.
RECURSIVE DeallocateAll(_, _)
DeallocateAll(st, addrs) ==
    IF addrs = <<>> THEN [res |-> "ok", st |-> st]
    ELSE LET r == PageAllocator_deallocate(st, Head(addrs)) IN
         IF r.res # "ok" THEN r ELSE DeallocateAll(r.st, Tail(addrs))

\* ------------------------------------------------------------------------
\* The mapper driven by a process manager, over the page allocator.
\* ------------------------------------------------------------------------

\* Greatest number of mapper operations in one behaviour.
MaxMapperOps == 3

MapperMemoryMaps ==
    { <<Seg(4096, 8192)>>,
      <<Seg(4096, 4096), Seg(8192, 20480)>> }

\* Virtual addresses: 0, 0x20_0000, 0x20_0abc, 0x20_1000, 0x4000_0000.
VirtAddrs == {0, 2097152, 2099900, 2101248, 1073741824}

\* Frames mapped by create_mapping (owned by somebody else): 0xa000, 0xb000.
PhysTargets == {40960, 45056}

\* Flags a caller passes for a leaf; the last one has the present bit clear.
LeafFlags ==
    {BitOr(PRESENT, WRITABLE), BitOr(BitOr(PRESENT, WRITABLE), USER_ACCESSIBLE), WRITABLE}

InitMapper ==
    /\ usable \in MapperMemoryMaps
    /\ SetPageStateInit(usable)
    /\ held = <<>>
    /\ boxes = <<>>
    /\ last = NoOp
    /\ NoMapper
    /\ NoSlab
    /\ NoSyscall
    /\ NoPaging
    /\ NoBootstrap
    /\ NoLogger
    /\ NoThreads
    /\ NoContainer

\* MemoryMapper::new.
MapperNew ==
    /\ ~Hung
    /\ mapper \in {"none", "dropped"}
    /\ ops < MaxMapperOps
    /\ \E r \in {PageAllocator_allocate(PageState)} :
        /\ SetPageState(r.st)
        /\ mapper' = IF r.res = "ok" THEN "live" ELSE mapper
        /\ l4_table' = IF r.res = "ok" THEN r.addr ELSE l4_table
        /\ tables' = IF r.res = "ok" THEN Zero(tables, r.addr) ELSE tables
        /\ mapper_allocs' = IF r.res = "ok" THEN <<r.addr>> ELSE mapper_allocs
        /\ dropped' = IF r.res = "ok" THEN <<>> ELSE dropped
        /\ last' = [op |-> "mapper_new", res |-> r.res, addr |-> r.addr, fresh |-> r.fresh, virt |-> 0]
    /\ ops' = ops + 1
    /\ UNCHANGED <<bootVars, sysVars, usable, held, boxes, slabVars>>

\* MemoryMapper::create_mapping(virt, phys, flags).
CreateMapping ==
    /\ ~Hung
    /\ mapper = "live"
    /\ ops < MaxMapperOps
    /\ \E v \in VirtAddrs, phys \in PhysTargets, flags \in LeafFlags :
        \E r \in {MemoryMapper_create_mapping(PageState, tables, l4_table, v, phys, flags)} :
        /\ SetPageState(r.st)
        /\ tables' = r.tbls
        /\ mapper_allocs' = mapper_allocs \o r.allocs
        /\ last' = [op |-> "create_mapping", res |-> r.res, addr |-> phys, fresh |-> FALSE, virt |-> v,
                    mapped |-> r.table, flags |-> flags]
    /\ ops' = ops + 1
    /\ UNCHANGED <<bootVars, sysVars, usable, held, boxes, mapper, l4_table, dropped, slabVars>>

\* MemoryMapper::allocate_mapping(virt, flags).
AllocateMapping ==
    /\ ~Hung
    /\ mapper = "live"
    /\ ops < MaxMapperOps
    /\ \E v \in VirtAddrs, flags \in LeafFlags :
        \E r \in {MemoryMapper_allocate_mapping(PageState, tables, l4_table, v, flags)} :
        /\ SetPageState(r.st)
        /\ tables' = r.tbls
        /\ mapper_allocs' = mapper_allocs \o r.allocs
        /\ last' = [op |-> "allocate_mapping", res |-> r.res, addr |-> r.table, fresh |-> FALSE, virt |-> v,
                    mapped |-> r.table, flags |-> flags]
    /\ ops' = ops + 1
    /\ UNCHANGED <<bootVars, sysVars, usable, held, boxes, mapper, l4_table, dropped, slabVars>>

\* The SysInfo of the model: a kernel image of a page and a half at 1 GiB
\* (a multiple of 2 MiB, as 0xffff_ffff_8000_0000 is), loaded at 0x10000.
SysInfo ==
    [kernel_phys_addr |-> 65536,
     kernel_virt_addr |-> 1073741824,
     kernel_virt_end_addr |-> 1073741824 + 6144]

\* MemoryMapper::map_kernel().
MapKernel ==
    /\ ~Hung
    /\ mapper = "live"
    /\ ops < MaxMapperOps
    /\ \E r \in {MemoryMapper_map_kernel(PageState, tables, l4_table, SysInfo)} :
        /\ SetPageState(r.st)
        /\ tables' = r.tbls
        /\ mapper_allocs' = mapper_allocs \o r.allocs
        /\ last' = [op |-> "map_kernel", res |-> r.res, addr |-> SysInfo.kernel_phys_addr,
                    fresh |-> FALSE, virt |-> SysInfo.kernel_virt_addr]
    /\ ops' = ops + 1
    /\ UNCHANGED <<bootVars, sysVars, usable, held, boxes, mapper, l4_table, dropped, slabVars>>

\* Drop for MemoryMapper.
MapperDrop ==
    /\ ~Hung
    /\ mapper = "live"
    /\ LET order == drop_recursive(tables, l4_table, 4)
           r == DeallocateAll(PageState, order) IN
        /\ SetPageState(r.st)
        /\ dropped' = order
        /\ last' = [op |-> "mapper_drop", res |-> r.res, addr |-> l4_table, fresh |-> FALSE, virt |-> 0]
    /\ mapper' = "dropped"
    /\ UNCHANGED <<bootVars, sysVars, usable, held, boxes, l4_table, tables, mapper_allocs, ops, slabVars>>

NextMapper == MapperNew \/ CreateMapping \/ AllocateMapping \/ MapKernel \/ MapperDrop

SpecMapper == InitMapper /\ [][NextMapper]_vars

\* The hardware walk of the four levels from a PML4 (as virtual_to_physical
\* does it): the leaf entry reached, or UNUSED when an upper level is not
\* present.
RECURSIVE WalkFrom(_, _, _, _)
WalkFrom(tbls, table, v, level) ==
    LET e == Get(tbls, table, Shr(v, 12 + 9 * (level - 1)) % 512) IN
    IF level = 1 THEN e
    ELSE IF ~Contains(PageTableEntry_flags(e), PRESENT) THEN UNUSED
    ELSE WalkFrom(tbls, PageTableEntry_addr(e), v, level - 1)

\* Multiset equality of two sequences.
SameBag(s, t) == \A x \in Range(s) \cup Range(t) : Count(s, x) = Count(t, x)

\* ------------------------------------------------------------------------
\* Claims on the address-space mapper.
\* ------------------------------------------------------------------------

\* C4: dropping a MemoryMapper deallocates exactly the frames the mapper
\* allocated (its PML4, the owned intermediate tables, the owned leaf
\* frames), each exactly once, and no other frame.
C4_DropReturnsExactly ==
    mapper = "dropped" => SameBag(dropped, mapper_allocs)

\* C9: after create_mapping(v, p, flags) succeeds, the walk of the four
\* levels from the PML4 for v with its low 12 bits cleared reaches a leaf
\* entry whose physical frame is p, whatever the low 12 bits of v were.
C9_WalkYieldsPhys ==
    (last.op = "create_mapping" /\ last.res = "ok")
        => PageTableEntry_addr(WalkFrom(tables, l4_table, (last.virt \div 4096) * 4096, 4))
               = last.addr

\* ------------------------------------------------------------------------
\* The small-object allocator (page_based_allocator.rs).
\* A page's `state` word is the set of the positions of its 1 bits; the
\* direct map has offset 0, so a pointer is frame + slot_idx * SLOT_SIZE.
\* ------------------------------------------------------------------------

SLOT_SIZE == 64
SLOT_COUNT == 64

\* Scaled from (4096 - 16) / 16 = 255 page records per list node.
MAX_META_COUNT == 1
MaxLive == 3
MaxSlabOps == 4

Slots == 0..(SLOT_COUNT - 1)

\* (layout.size() + SLOT_SIZE - 1) / SLOT_SIZE
SlotCount(size) == (size + SLOT_SIZE - 1) \div SLOT_SIZE

\* if layout.align() < 64 { 1 } else { layout.align() / SLOT_SIZE }
SlotAlign(align) == IF align < 64 THEN 1 ELSE align \div SLOT_SIZE

\* ((ptr as usize) % PAGE_SIZE) / SLOT_SIZE
SlotIdx(ptr) == (ptr % PAGE_SIZE) \div SLOT_SIZE

\* PageMeta::mask, ((1 << slot_count) - 1) << slot_idx on a 64-bit word.
\* A shift by 64 or more panics in a build with overflow checks and takes
\* the amount modulo 64 otherwise; bits shifted past bit 63 are lost.
PageMeta_mask(slot_idx, slot_count, debug) ==
    IF debug /\ (slot_count >= 64 \/ slot_idx >= 64)
    THEN [panic |-> TRUE, bits |-> {}]
    ELSE [panic |-> FALSE,
          bits |-> {b + (slot_idx % 64) : b \in 0..((slot_count % 64) - 1)} \cap Slots]

\* PageMeta::allocate: the first slot_idx = 0, slot_align, 2 * slot_align, ...
\* below SLOT_COUNT whose mask meets no set bit. The mask is computed for
\* slot_idx = 0 first, which is where a shift by slot_count >= 64 panics.
PageMeta_allocate(state, slot_count, slot_align, debug) ==
    IF PageMeta_mask(0, slot_count, debug).panic
    THEN [kind |-> "panic", slot_idx |-> 0, state |-> state]
    ELSE
        LET free == {i \in Slots : /\ i % slot_align = 0
                                   /\ state \cap PageMeta_mask(i, slot_count, debug).bits = {}}
        IN
        IF free = {} THEN [kind |-> "miss", slot_idx |-> 0, state |-> state]
        ELSE LET slot_idx == SetMin(free) IN
             [kind |-> "hit", slot_idx |-> slot_idx,
              state |-> state \cup PageMeta_mask(slot_idx, slot_count, debug).bits]

\* PageMeta::includes
PageMeta_includes(page, addr) == page.page <= addr /\ addr < page.page + PAGE_SIZE

\* PageMetaNode::allocate_in_existing: find_map over the node's pages.
RECURSIVE PagesFindMap(_, _, _, _, _)
PagesFindMap(pages, k, slot_count, slot_align, debug) ==
    IF k > Len(pages) THEN [kind |-> "miss", pages |-> pages, ptr |-> 0]
    ELSE LET r == PageMeta_allocate(pages[k].state, slot_count, slot_align, debug) IN
         IF r.kind = "panic" THEN [kind |-> "panic", pages |-> pages, ptr |-> 0]
         ELSE IF r.kind = "hit"
              THEN [kind |-> "hit",
                    pages |-> [pages EXCEPT ![k].state = r.state],
                    ptr |-> pages[k].page + r.slot_idx * SLOT_SIZE]
              ELSE PagesFindMap(pages, k + 1, slot_count, slot_align, debug)

PageMetaNode_allocate_in_existing(pages, slot_count, slot_align, debug) ==
    PagesFindMap(pages, 1, slot_count, slot_align, debug)

\* list.iter_mut().find_map(|node| node.allocate_in_existing(..))
RECURSIVE NodesFindMap(_, _, _, _, _)
NodesFindMap(list, k, slot_count, slot_align, debug) ==
    IF k > Len(list) THEN [kind |-> "miss", list |-> list, ptr |-> 0]
    ELSE LET r == PageMetaNode_allocate_in_existing(list[k].pages, slot_count,
                                                    slot_align, debug) IN
         IF r.kind = "miss"
         THEN NodesFindMap(list, k + 1, slot_count, slot_align, debug)
         ELSE [kind |-> r.kind, list |-> [list EXCEPT ![k].pages = r.pages], ptr |-> r.ptr]

\* The first node whose vector has room (node.pages.push succeeds), 0 if none.
FirstRoom(list) ==
    LET S == {k \in 1..Len(list) : Len(list[k].pages) < MAX_META_COUNT} IN
    IF S = {} THEN 0 ELSE CHOOSE k \in S : \A j \in S : k <= j

\* A result of the page allocator as a result of the small-object allocator.
AllocErr(res) == IF res = "oom" THEN "err" ELSE res

\* allocate_in_list; `new_page` tells whether the whole list missed and
\* allocate_at_unchecked(0, slot_count) ran on a page from PageMeta::new.
allocate_in_list(st, list, slot_count, slot_align, debug) ==
    LET f == NodesFindMap(list, 1, slot_count, slot_align, debug) IN
    IF f.kind = "panic"
    THEN [res |-> "panic", ptr |-> 0, list |-> list, st |-> st, new_page |-> FALSE]
    ELSE IF f.kind = "hit"
    THEN [res |-> "ok", ptr |-> f.ptr, list |-> f.list, st |-> st, new_page |-> FALSE]
    ELSE
        \* PageMeta::new
        LET a == PageAllocator_allocate(st) IN
        IF a.res # "ok"
        THEN [res |-> AllocErr(a.res), ptr |-> 0, list |-> list, st |-> a.st,
              new_page |-> FALSE]
        ELSE
            \* meta.allocate_at_unchecked(0, slot_count)
            LET m == PageMeta_mask(0, slot_count, debug)
                meta == [page |-> a.addr, state |-> m.bits]
                k == FirstRoom(list)
            IN
            IF m.panic
            THEN [res |-> "panic", ptr |-> 0, list |-> list, st |-> a.st, new_page |-> TRUE]
            ELSE IF k # 0
            THEN [res |-> "ok", ptr |-> a.addr,
                  list |-> [list EXCEPT ![k].pages = Append(@, meta)], st |-> a.st,
                  new_page |-> TRUE]
            ELSE
                \* cur.insert(PageMetaNode::new()) at the end of the list
                LET n == PageAllocator_allocate(a.st) IN
                IF n.res = "ok"
                THEN [res |-> "ok", ptr |-> a.addr,
                      list |-> Append(list, [frame |-> n.addr, pages |-> <<meta>>]),
                      st |-> n.st, new_page |-> TRUE]
                ELSE IF n.res = "hang"
                THEN [res |-> "hang", ptr |-> 0, list |-> list, st |-> n.st, new_page |-> TRUE]
                ELSE
                    \* `meta` goes out of scope: its PageBox returns the frame.
                    LET d == PageAllocator_deallocate(n.st, a.addr) IN
                    [res |-> IF d.res = "ok" THEN "err" ELSE d.res,
                     ptr |-> 0, list |-> list, st |-> d.st, new_page |-> TRUE]

\* PageBasedAllocator::allocate without the test of the layout against PAGE_SIZE.
PageBasedAllocator_allocate_nolimit(st, list, size, align, debug) ==
    allocate_in_list(st, list, SlotCount(size), SlotAlign(align), debug)

\* PageBasedAllocator::allocate
PageBasedAllocator_allocate(st, list, size, align, debug) ==
    IF size > PAGE_SIZE \/ align > PAGE_SIZE
    THEN [res |-> "err", ptr |-> 0, list |-> list, st |-> st, new_page |-> FALSE]
    ELSE allocate_in_list(st, list, SlotCount(size), SlotAlign(align), debug)

\* Vec::swap_remove_unchecked: the last element takes the place of the
\* removed one.
swap_remove_unchecked(s, at) ==
    IF at = Len(s) THEN SubSeq(s, 1, Len(s) - 1)
    ELSE SubSeq([s EXCEPT ![at] = s[Len(s)]], 1, Len(s) - 1)

\* pages.iter_mut().position(|page| page.includes(addr)), 0 if none.
Position(pages, addr) ==
    LET S == {k \in 1..Len(pages) : PageMeta_includes(pages[k], addr)} IN
    IF S = {} THEN 0 ELSE CHOOSE k \in S : \A j \in S : k <= j

\* PageMetaNode::deallocate_unchecked that keeps a page whose state became 0.
PageMetaNode_deallocate_unchecked_keep(pages, addr, slot_idx, slot_count, debug) ==
    LET at == Position(pages, addr) IN
    IF at = 0 THEN [kind |-> "none", pages |-> pages, freed |-> <<>>]
    ELSE
        LET m == PageMeta_mask(slot_idx, slot_count, debug)
            state == pages[at].state
        IN
        IF m.panic \/ (debug /\ ~(m.bits \subseteq state))
        THEN [kind |-> "panic", pages |-> pages, freed |-> <<>>]
        ELSE [kind |-> "some", pages |-> [pages EXCEPT ![at].state = state \ m.bits],
              freed |-> <<>>]

\* PageMetaNode::deallocate_unchecked with PageMeta::deallocate_unchecked:
\* clears the block's bits in the first page including addr, and removes
\* the page when no bit is left. `freed` holds the frame of a removed page.
PageMetaNode_deallocate_unchecked(pages, addr, slot_idx, slot_count, debug) ==
    LET at == Position(pages, addr) IN
    IF at = 0 THEN [kind |-> "none", pages |-> pages, freed |-> <<>>]
    ELSE
        LET m == PageMeta_mask(slot_idx, slot_count, debug)
            state == pages[at].state
        IN
        IF m.panic \/ (debug /\ ~(m.bits \subseteq state))
        THEN [kind |-> "panic", pages |-> pages, freed |-> <<>>]
        ELSE IF state \ m.bits = {}
        THEN [kind |-> "some", pages |-> swap_remove_unchecked(pages, at),
              freed |-> <<pages[at].page>>]
        ELSE [kind |-> "some", pages |-> [pages EXCEPT ![at].state = state \ m.bits],
              freed |-> <<>>]

\* The frames of `frames` go back to the page allocator, in order.
RECURSIVE DestroyBoxes(_, _)
DestroyBoxes(st, frames) ==
    IF frames = <<>> THEN [res |-> "ok", st |-> st]
    ELSE LET d == PageAllocator_deallocate(st, Head(frames)) IN
         IF d.res # "ok" THEN d ELSE DestroyBoxes(d.st, Tail(frames))

\* deallocate_in_list, from node k on.
RECURSIVE deallocate_from(_, _, _, _, _, _)
deallocate_from(st, list, k, addr, slot_count, debug) ==
    IF k > Len(list)
    THEN \* debug_assert!(false, ..); unreachable_unchecked()
         [res |-> IF debug THEN "panic" ELSE "ub", list |-> list, st |-> st]
    ELSE
        LET r == PageMetaNode_deallocate_unchecked(list[k].pages, addr, SlotIdx(addr),
                                                   slot_count, debug) IN
        IF r.kind = "none" THEN deallocate_from(st, list, k + 1, addr, slot_count, debug)
        ELSE IF r.kind = "panic" THEN [res |-> "panic", list |-> list, st |-> st]
        ELSE
            \* An emptied node is unlinked (cur.remove()) and its frame returned.
            LET gone == r.pages = <<>>
                d == DestroyBoxes(st, r.freed \o (IF gone THEN <<list[k].frame>> ELSE <<>>))
            IN [res |-> d.res,
                list |-> IF gone THEN Remove(list, k)
                         ELSE [list EXCEPT ![k].pages = r.pages],
                st |-> d.st]

deallocate_in_list(st, list, addr, slot_count, debug) ==
    deallocate_from(st, list, 1, addr, slot_count, debug)

\* PageBasedAllocator::deallocate
PageBasedAllocator_deallocate(st, list, ptr, size, debug) ==
    deallocate_in_list(st, list, ptr, SlotCount(size), debug)

\* PageMeta::grow_unchecked on a page's state word.
PageMeta_grow_unchecked(state, slot_idx, slot_count, new_slot_count, debug) ==
    LET old_mask == PageMeta_mask(slot_idx, slot_count, debug)
        added_mask == PageMeta_mask(slot_idx + slot_count, new_slot_count - slot_count, debug)
        new_mask == PageMeta_mask(slot_idx, new_slot_count, debug)
    IN
    IF old_mask.panic \/ (debug /\ ~(old_mask.bits \subseteq state)) \/ added_mask.panic
    THEN [kind |-> "panic", state |-> state]
    ELSE IF added_mask.bits \cap state # {} THEN [kind |-> "err", state |-> state]
    ELSE IF new_mask.panic THEN [kind |-> "panic", state |-> state]
    ELSE [kind |-> "ok", state |-> state \cup new_mask.bits]

\* The loop of PageBasedAllocator::grow over the nodes, from node k on:
\* "ok" (grown in place), "break" (found, no room), "panic" or "ub".
RECURSIVE grow_from(_, _, _, _, _, _)
grow_from(list, k, ptr, slot_count, new_slot_count, debug) ==
    IF k > Len(list)
    THEN [kind |-> IF debug THEN "panic" ELSE "ub", list |-> list]
    ELSE
        LET at == Position(list[k].pages, ptr) IN
        IF at = 0 THEN grow_from(list, k + 1, ptr, slot_count, new_slot_count, debug)
        ELSE
            LET g == PageMeta_grow_unchecked(list[k].pages[at].state, SlotIdx(ptr),
                                             slot_count, new_slot_count, debug) IN
            [kind |-> IF g.kind = "err" THEN "break" ELSE g.kind,
             list |-> [list EXCEPT ![k].pages[at].state = g.state]]

\* The slots a block of slot_count slots at ptr covers, counted from the
\* start of physical memory.
SlotsAt(ptr, slot_count) == (ptr \div SLOT_SIZE)..((ptr \div SLOT_SIZE) + slot_count - 1)

\* What slot s of memory holds; memory never written reads as 0.
ReadSlot(m, s) == IF s \in DOMAIN m THEN m[s] ELSE 0

\* The contents of slot_count slots from ptr on.
Contents(m, ptr, slot_count) ==
    [k \in 1..slot_count |-> ReadSlot(m, (ptr \div SLOT_SIZE) + k - 1)]

\* The holder of a block fills the slots S with `tag`.
WriteSlots(m, S, tag) ==
    [s \in DOMAIN m \cup S |-> IF s \in S THEN tag ELSE m[s]]

\* core::ptr::copy_nonoverlapping(src, dst, count), in slots: undefined
\* when the two ranges overlap.
copy_nonoverlapping(m, src, dst, slot_count) ==
    IF SlotsAt(src, slot_count) \cap SlotsAt(dst, slot_count) # {}
    THEN [ub |-> TRUE, mem |-> m]
    ELSE [ub |-> FALSE,
          mem |-> [s \in DOMAIN m \cup SlotsAt(dst, slot_count) |->
                     IF s \in SlotsAt(dst, slot_count)
                     THEN ReadSlot(m, s - (dst \div SLOT_SIZE) + (src \div SLOT_SIZE))
                     ELSE m[s]]]

\* PageBasedAllocator::grow
PageBasedAllocator_grow(st, list, m, ptr, old_size, new_size, new_align, debug) ==
    IF new_size > PAGE_SIZE \/ new_align > PAGE_SIZE
    THEN [res |-> "err", ptr |-> ptr, list |-> list, st |-> st, mem |-> m]
    ELSE
        LET slot_count == SlotCount(old_size)
            new_slot_count == SlotCount(new_size)
            g == grow_from(list, 1, ptr, slot_count, new_slot_count, debug)
        IN
        IF g.kind = "ok"
        THEN [res |-> "ok", ptr |-> ptr, list |-> g.list, st |-> st, mem |-> m]
        ELSE IF g.kind # "break"
        THEN [res |-> g.kind, ptr |-> ptr, list |-> list, st |-> st, mem |-> m]
        ELSE
            LET a == allocate_in_list(st, list, new_slot_count, SlotAlign(new_align), debug) IN
            IF a.res # "ok"
            THEN [res |-> a.res, ptr |-> ptr, list |-> a.list, st |-> a.st, mem |-> m]
            ELSE
                LET c == copy_nonoverlapping(m, ptr, a.ptr, slot_count) IN
                IF c.ub
                THEN [res |-> "ub", ptr |-> a.ptr, list |-> a.list, st |-> a.st, mem |-> m]
                ELSE
                    LET d == deallocate_in_list(a.st, a.list, ptr, slot_count, debug) IN
                    [res |-> d.res, ptr |-> a.ptr, list |-> d.list, st |-> d.st,
                     mem |-> c.mem]

\* ------------------------------------------------------------------------
\* The small-object allocator over the page allocator.
\* `live` holds the blocks handed out and not yet given back, with the
\* layout their holder will pass to deallocate or grow.
\* ------------------------------------------------------------------------

SlabMemoryMaps ==
    { <<Seg(4096, 16384)>>,
      <<Seg(4096, 4096), Seg(8192, 4096)>> }

\* Layouts (size, align) of the requests.
Layouts == { <<64, 8>>, <<128, 128>>, <<256, 64>>, <<3968, 8>>, <<4096, 4096>>, <<8192, 8>>,
             <<64, 8192>> }

InitSlab ==
    /\ usable \in SlabMemoryMaps
    /\ SetPageStateInit(usable)
    /\ held = <<>>
    /\ boxes = <<>>
    /\ last = NoOp
    /\ NoMapper
    /\ debug_build \in BOOLEAN
    /\ slab_list = <<>>
    /\ live = <<>>
    /\ mem = <<>>
    /\ NoSyscall
    /\ NoPaging
    /\ NoBootstrap
    /\ NoLogger
    /\ NoThreads
    /\ NoContainer

\* Allocator::allocate(layout)
SlabAllocate ==
    /\ ~Hung
    /\ Len(live) < MaxLive
    /\ ops < MaxSlabOps
    /\ \E l \in Layouts :
        \E r \in {PageBasedAllocator_allocate(PageState, slab_list, l[1], l[2], debug_build)} :
        /\ SetPageState(r.st)
        /\ slab_list' = r.list
        /\ live' = IF r.res = "ok"
                   THEN Append(live, [ptr |-> r.ptr, size |-> l[1], align |-> l[2]])
                   ELSE live
        /\ mem' = IF r.res = "ok"
                  THEN WriteSlots(mem, SlotsAt(r.ptr, SlotCount(l[1])), ops + 1)
                  ELSE mem
        /\ last' = [op |-> "slab_allocate", res |-> r.res, addr |-> r.ptr,
                    fresh |-> FALSE, virt |-> 0, size |-> l[1], align |-> l[2],
                    new_page |-> r.new_page]
    /\ ops' = ops + 1
    /\ UNCHANGED <<bootVars, sysVars, usable, held, boxes, mapper, l4_table, tables, mapper_allocs,
                   dropped, debug_build>>

\* Allocator::deallocate(ptr, layout) of a block the caller holds.
SlabDeallocate ==
    /\ ~Hung
    /\ ops < MaxSlabOps
    /\ \E i \in 1..Len(live) :
        \E r \in {PageBasedAllocator_deallocate(PageState, slab_list, live[i].ptr,
                                               live[i].size, debug_build)} :
        /\ SetPageState(r.st)
        /\ slab_list' = r.list
        /\ live' = IF r.res = "ok" THEN Remove(live, i) ELSE live
        /\ last' = [op |-> "slab_deallocate", res |-> r.res, addr |-> live[i].ptr,
                    fresh |-> FALSE, virt |-> 0]
        /\ mem' = mem
    /\ ops' = ops + 1
    /\ UNCHANGED <<bootVars, sysVars, usable, held, boxes, mapper, l4_table, tables, mapper_allocs,
                   dropped, debug_build>>

\* Allocator::grow(ptr, old_layout, new_layout) of a block the caller holds;
\* new_layout.size() >= old_layout.size() is the caller's obligation.
SlabGrow ==
    /\ ~Hung
    /\ ops < MaxSlabOps
    /\ \E i \in 1..Len(live), l \in Layouts :
        /\ l[1] >= live[i].size
        /\ \E r \in {PageBasedAllocator_grow(PageState, slab_list, mem, live[i].ptr,
                                            live[i].size, l[1], l[2], debug_build)} :
            /\ SetPageState(r.st)
            /\ slab_list' = r.list
            /\ live' = IF r.res = "ok"
                       THEN [live EXCEPT ![i] = [ptr |-> r.ptr, size |-> l[1], align |-> l[2]]]
                       ELSE live
            /\ mem' = r.mem
            /\ last' = [op |-> "slab_grow", res |-> r.res, addr |-> r.ptr,
                        fresh |-> FALSE, virt |-> 0,
                        old_ptr |-> live[i].ptr, old_size |-> live[i].size, size |-> l[1],
                        align |-> l[2],
                        old_data |-> Contents(mem, live[i].ptr, SlotCount(live[i].size))]
    /\ ops' = ops + 1
    /\ UNCHANGED <<bootVars, sysVars, usable, held, boxes, mapper, l4_table, tables, mapper_allocs,
                   dropped, debug_build>>

NextSlab == SlabAllocate \/ SlabDeallocate \/ SlabGrow

SpecSlab == InitSlab /\ [][NextSlab]_vars

\* The slots [first, last] a block occupies, counted from the start of
\* physical memory (slot s of frame f has number f / SLOT_SIZE + s).
BlockSlots(b) == (b.ptr \div SLOT_SIZE)..((b.ptr \div SLOT_SIZE) + SlotCount(b.size) - 1)

\* The slab pages of the list, as a set of page records.
SlabPages == UNION { Range(slab_list[k].pages) : k \in 1..Len(slab_list) }

\* C6: every pointer returned by allocate for a layout (size, align) within
\* the limits is aligned to align, and [p, p + size) lies in one page.
C6_AllocateInOnePage ==
    (last.op = "slab_allocate" /\ last.res = "ok") =>
        LET b == live[Len(live)] IN
        /\ b.ptr % b.align = 0
        /\ (b.ptr % PAGE_SIZE) + b.size <= PAGE_SIZE
        /\ SlotIdx(b.ptr) + SlotCount(b.size) <= SLOT_COUNT

\* C7: no two outstanding blocks share a 64-byte slot.
C7_NoSharedSlot ==
    \A i, j \in 1..Len(live) : i # j => BlockSlots(live[i]) \cap BlockSlots(live[j]) = {}

\* C8: in each slab page the set bits of the state word are exactly the
\* slots of the outstanding blocks in that page.
C8_StateIsOutstanding ==
    \A pg \in SlabPages :
        {pg.page \div SLOT_SIZE + s : s \in pg.state}
          = UNION { BlockSlots(live[i]) : i \in {k \in 1..Len(live) :
                                                   PageMeta_includes(pg, live[k].ptr)} }

\* ------------------------------------------------------------------------
\* Ownership of the frames.
\* ------------------------------------------------------------------------

\* How many times the small-object allocator holds frame f: as a slab page
\* or as a node of its list.
RECURSIVE SlabOwns(_, _)
SlabOwns(list, f) ==
    IF list = <<>> THEN 0
    ELSE B2N(Head(list).frame = f)
         + Cardinality({k \in 1..Len(Head(list).pages) : Head(list).pages[k].page = f})
         + SlabOwns(Tail(list), f)

\* How many times a live mapper holds frame f as a table or as an owned leaf.
MapperOwns(f) == IF mapper = "live" THEN Count(mapper_allocs, f) ELSE 0

\* The owners of frame f over all the holders.
Owners(f) ==
    AllocatorAccounts(f) + Count(held, f) + Count(boxes, f)
        + SlabOwns(slab_list, f) + MapperOwns(f)

\* C5: at every point each frame of the memory map has exactly one owner:
\* the provider's pool, the free list, a caller or PageBox, a slab page or
\* node, or a table or leaf of a mapper.
C5_ExactlyOneOwner == \A f \in FramesOf(usable) : Owners(f) = 1

\* ------------------------------------------------------------------------
\* The system-call dispatch (interrupts/system_call/mod.rs).
\* ------------------------------------------------------------------------

\* SystemCall::COUNT
SystemCall_COUNT == 1

\* static ND_SYSTEM_CALL_TABLE = [ring0::ring0, terminate::terminate]
ND_SYSTEM_CALL_TABLE == <<"ring0", "terminate">>

MaxSyscalls == 3

\* Call numbers in rax: inside the table, at its end, past it, far past it.
CallNumbers == {0, 1, 2, 3, 2147483647}

\* Values of the argument registers rdi, rsi, rdx.
Args == {0, 7}

\* What a handler may leave in rax.
HandlerResults == {0, 1}

\* call [table + rax * 8]: the element of the table at index rax, or
\* whatever lies behind the table.
TableEntry(n) ==
    IF n < Len(ND_SYSTEM_CALL_TABLE) THEN ND_SYSTEM_CALL_TABLE[n + 1] ELSE "out_of_table"

\* handle_syscall without `cmp rax, COUNT; jae 1f`.
handle_syscall_unchecked(rax, rdi, rsi, rdx, ret) ==
    [num |-> rax, rdi |-> rdi, rsi |-> rsi, rdx |-> rdx,
     read |-> rax, handler |-> TableEntry(rax), error |-> "none", rax |-> ret]

\* handle_syscall: rax holds the call number on entry and the result on
\* return; `ret` is what the invoked handler returns.
handle_syscall(rax, rdi, rsi, rdx, ret) ==
    IF rax >= SystemCall_COUNT
    THEN \* 1: mov rax, INVALID_ARGUMENT; sysretq
         [num |-> rax, rdi |-> rdi, rsi |-> rsi, rdx |-> rdx,
          read |-> -1, handler |-> "none", error |-> "INVALID_ARGUMENT", rax |-> 0]
    ELSE \* lea rcx, [table + rax * 8]; call [rcx]; sysretq
         [num |-> rax, rdi |-> rdi, rsi |-> rsi, rdx |-> rdx,
          read |-> rax, handler |-> TableEntry(rax), error |-> "none", rax |-> ret]

InitSyscall ==
    /\ usable = <<>>
    /\ SetPageStateInit(usable)
    /\ held = <<>>
    /\ boxes = <<>>
    /\ last = NoOp
    /\ NoMapper
    /\ NoSlab
    /\ NoSyscall
    /\ NoPaging
    /\ NoBootstrap
    /\ NoLogger
    /\ NoThreads
    /\ NoContainer

\* A ring-3 program executes SYSCALL.
Syscall ==
    /\ sys_count < MaxSyscalls
    /\ \E n \in CallNumbers, a \in Args, b \in Args, c \in Args, ret \in HandlerResults :
        \E r \in {handle_syscall(n, a, b, c, ret)} :
        /\ sys' = r
        /\ handler_calls' = IF r.handler = "none" THEN handler_calls
                            ELSE Append(handler_calls, <<r.handler, r.rdi, r.rsi, r.rdx, ret>>)
    /\ sys_count' = sys_count + 1
    /\ UNCHANGED <<bootVars, usable, segments, index, free_pages, nodes, provided, calls, held,
                   boxes, last, mapperVars, slabVars>>

NextSyscall == Syscall

SpecSyscall == InitSyscall /\ [][NextSyscall]_vars

\* C10: a call number at or past the length of the handler table gets
\* InvalidArgument, no handler is invoked for it and no element at or past
\* the end of the table is read.
C10_OutOfRangeRejected ==
    /\ (sys_count > 0 /\ sys.num >= Len(ND_SYSTEM_CALL_TABLE)) =>
          /\ sys.error = "INVALID_ARGUMENT"
          /\ sys.handler = "none"
          /\ sys.read = -1
    /\ sys.read < Len(ND_SYSTEM_CALL_TABLE)
    /\ \A k \in 1..Len(handler_calls) :
          \E n \in 0..(Len(ND_SYSTEM_CALL_TABLE) - 1) :
              handler_calls[k][1] = ND_SYSTEM_CALL_TABLE[n + 1]

\* A call with a number past the table was made after a handler ran.
C10_Witness ==
    /\ sys_count > 1
    /\ sys.num >= Len(ND_SYSTEM_CALL_TABLE)
    /\ handler_calls # <<>>

\* C11: for a call number that has a handler in the table, the dispatch
\* calls that handler with the three arguments unchanged and returns the
\* handler's result verbatim.
C11_HandlerDispatched ==
    (sys_count > 0 /\ sys.num < Len(ND_SYSTEM_CALL_TABLE)) =>
        /\ sys.error = "none"
        /\ sys.handler = ND_SYSTEM_CALL_TABLE[sys.num + 1]
        /\ handler_calls # <<>>
        /\ handler_calls[Len(handler_calls)]
              = <<ND_SYSTEM_CALL_TABLE[sys.num + 1], sys.rdi, sys.rsi, sys.rdx, sys.rax>>

\* C12: grow to a new size of at most 4096 returns (unless memory is
\* exhausted) a block whose first old-size bytes hold what the block held
\* before the call, whether it was extended in place or moved.
C12_GrowKeepsContents ==
    (last.op = "slab_grow" /\ last.size <= PAGE_SIZE) =>
        /\ last.res \in {"ok", "err"}
        /\ last.res = "ok" =>
              Contents(mem, last.addr, SlotCount(last.old_size)) = last.old_data

\* C13: once as many frames as the segments hold have been handed out,
\* every further PageProvider::allocate returns OutOfMemory; a provider
\* built from an empty iterator never returns a frame. (`provided` holds
\* the frames the provider returned; a call that succeeds after exhaustion
\* makes it longer than the number of pages.)
C13_ExhaustedStaysExhausted == Len(provided) <= TotalPages(segments)

\* The k-th 4 KiB page of the memory map, in ascending order.
KthPage(k) ==
    CHOOSE f \in FramesOf(usable) : Cardinality({g \in FramesOf(usable) : g < f}) = k - 1

MaxBlocks == 3

RtLayouts == { <<64, 8>>, <<100, 8>>, <<128, 128>>, <<256, 64>>, <<3968, 8>> }

\* Every outstanding block lies in the one slab page of the list.
OnePage(list, blocks) ==
    /\ Len(list) = 1
    /\ Len(list[1].pages) = 1
    /\ \A i \in 1..Len(blocks) :
          /\ list[1].pages[1].page <= blocks[i].ptr
          /\ blocks[i].ptr + blocks[i].size <= list[1].pages[1].page + PAGE_SIZE

\* The k-th allocation of the round trip (the first one chooses the layout).
RtAllocate ==
    /\ ~Hung
    /\ last.op \in {"none", "rt_allocate"}
    /\ last.op = "rt_allocate" => last.res = "ok"
    /\ Len(live) < MaxBlocks
    /\ \E l \in (IF last.op = "none" THEN RtLayouts ELSE {last.layout}) :
        \E r \in {PageBasedAllocator_allocate(PageState, slab_list, l[1], l[2], debug_build)} :
        /\ SetPageState(r.st)
        /\ slab_list' = r.list
        /\ live' = IF r.res = "ok"
                   THEN Append(live, [ptr |-> r.ptr, size |-> l[1], align |-> l[2]])
                   ELSE live
        /\ mem' = IF r.res = "ok"
                  THEN WriteSlots(mem, SlotsAt(r.ptr, SlotCount(l[1])), ops + 1)
                  ELSE mem
        /\ last' = [op |-> "rt_allocate", res |-> r.res, addr |-> r.ptr,
                    fresh |-> FALSE, virt |-> 0, layout |-> l,
                    first |-> IF last.op = "none" THEN r.ptr ELSE last.first,
                    one_page |-> r.res = "ok" /\ OnePage(slab_list', live')]
    /\ ops' = ops + 1
    /\ UNCHANGED <<bootVars, sysVars, usable, held, boxes, mapper, l4_table, tables, mapper_allocs,
                   dropped, debug_build>>

\* The blocks go back, the last allocated first.
RtDeallocate ==
    /\ ~Hung
    /\ last.op \in {"rt_allocate", "rt_deallocate"}
    /\ last.res = "ok"
    /\ live # <<>>
    /\ LET b == live[Len(live)] IN
        \E r \in {PageBasedAllocator_deallocate(PageState, slab_list, b.ptr, b.size,
                                                debug_build)} :
        /\ SetPageState(r.st)
        /\ slab_list' = r.list
        /\ live' = IF r.res = "ok" THEN SubSeq(live, 1, Len(live) - 1) ELSE live
        /\ last' = [last EXCEPT !.op = "rt_deallocate", !.res = r.res, !.addr = b.ptr]
    /\ ops' = ops + 1
    /\ UNCHANGED <<bootVars, sysVars, usable, held, boxes, mapper, l4_table, tables, mapper_allocs,
                   dropped, debug_build, mem>>

\* One more block of the same layout once all are back.
RtAgain ==
    /\ ~Hung
    /\ last.op = "rt_deallocate"
    /\ last.res = "ok"
    /\ live = <<>>
    /\ LET l == last.layout IN
        \E r \in {PageBasedAllocator_allocate(PageState, slab_list, l[1], l[2], debug_build)} :
        /\ SetPageState(r.st)
        /\ slab_list' = r.list
        /\ live' = IF r.res = "ok"
                   THEN Append(live, [ptr |-> r.ptr, size |-> l[1], align |-> l[2]])
                   ELSE live
        /\ mem' = IF r.res = "ok"
                  THEN WriteSlots(mem, SlotsAt(r.ptr, SlotCount(l[1])), ops + 1)
                  ELSE mem
        /\ last' = [last EXCEPT !.op = "rt_again", !.res = r.res, !.addr = r.ptr]
    /\ ops' = ops + 1
    /\ UNCHANGED <<bootVars, sysVars, usable, held, boxes, mapper, l4_table, tables, mapper_allocs,
                   dropped, debug_build>>

NextRoundTrip == RtAllocate \/ RtDeallocate \/ RtAgain

SpecRoundTrip == InitSlab /\ [][NextRoundTrip]_vars

\* C15 as claimed: after the round trip no slab page has a bit set and the
\* next allocation of the layout returns the address of the very first one.
C15_RoundTripSameAddress ==
    (last.op = "rt_again" /\ last.res = "ok" /\ last.one_page) => last.addr = last.first

\* C15 amended: once the k blocks of one slab page are all back, the page
\* and its list node are gone from the list (their frames went back to the
\* page allocator), and the next allocation of the layout opens a new slab
\* page and returns its first slot.
C15_RoundTripNewPage ==
    /\ (last.op = "rt_deallocate" /\ last.res = "ok" /\ last.one_page /\ live = <<>>)
          => slab_list = <<>>
    /\ (last.op = "rt_again" /\ last.res = "ok" /\ last.one_page)
          => /\ OnePage(slab_list, live)
             /\ slab_list[1].pages[1].page = last.addr
             /\ {slab_list[1].pages[1].page \div SLOT_SIZE + s : s \in slab_list[1].pages[1].state}
                   = BlockSlots(live[1])

\* C15 witness: three blocks of 100 bytes went out and came back, and the
\* next allocation returned a block.
C15_Witness ==
    /\ last.op = "rt_again" /\ last.res = "ok" /\ last.one_page
    /\ last.layout = <<100, 8>>
    /\ ops = 2 * MaxBlocks + 1

\* C16: allocate with a size or an alignment above 4096 returns AllocError,
\* takes no page from the page allocator and changes no slab state.
C16_TooLargeRejected ==
    [][(/\ last'.op = "slab_allocate"
        /\ ops' = ops + 1
        /\ (last'.size > PAGE_SIZE \/ last'.align > PAGE_SIZE))
          => /\ last'.res = "err"
             /\ UNCHANGED <<slab_list, live, mem, segments, index, free_pages, nodes,
                            provided, calls>>]_vars

\* C16 witness: a request of 8192 bytes was turned down by an allocator
\* that holds a slab page with room.
C16_Witness ==
    /\ last.op = "slab_allocate"
    /\ last.size = 8192
    /\ last.res = "err"
    /\ slab_list # <<>>

\* ------------------------------------------------------------------------
\* The boot-time identity map (paging/identity_map.rs), over the
\* PageProvider.  `map` is the identity: a table is read and written at its
\* physical address.
\* ------------------------------------------------------------------------

ONE_GIGABYTE == 1073741824

TWO_MEGABYTES == 2097152

FOUR_KILOBYTES == 4096

GLOBAL == 256

pml4e_index(virt) == Shr(virt, 39) % 512

pdpte_index(virt) == Shr(virt, 30) % 512

pde_index(virt) == Shr(virt, 21) % 512

pte_index(virt) == Shr(virt, 12) % 512

\* The provider as a record, and one provider.allocate() on it.
ProviderState == [segments |-> segments, index |-> index, provided |-> provided, calls |-> calls]

SetProviderState(ps) ==
    /\ index' = ps.index
    /\ provided' = ps.provided
    /\ calls' = ps.calls

provider_allocate(ps) ==
    LET r == PageProvider_allocate(ps.segments, ps.index) IN
    [ok |-> r.ok, addr |-> r.addr,
     ps |-> [ps EXCEPT !.index = r.index,
                       !.calls = @ + 1,
                       !.provided = IF r.ok THEN Append(@, r.addr) ELSE @]]

\* get_directory_entry without the test of HUGE_PAGE: a present entry is
\* followed.
get_directory_entry_follow(ps, tbls, page_table, i) ==
    LET entry == Get(tbls, page_table, i) IN
    IF ~Contains(PageTableEntry_flags(entry), PRESENT) THEN
        LET a == provider_allocate(ps) IN
        IF ~a.ok THEN [res |-> "oom", ps |-> a.ps, tbls |-> tbls, addr |-> 0]
        ELSE [res |-> "ok", ps |-> a.ps,
              tbls |-> Put(Zero(tbls, a.addr), page_table, i,
                           PageTableEntry_new(a.addr, BitOr(PRESENT, WRITABLE))),
              addr |-> a.addr]
    ELSE [res |-> "ok", ps |-> ps, tbls |-> tbls, addr |-> PageTableEntry_addr(entry)]

\* get_directory_entry: the entry of a table that refers to a lower table,
\* made when the entry is not present; addr is the lower table.
get_directory_entry(ps, tbls, page_table, i) ==
    LET entry == Get(tbls, page_table, i) IN
    IF ~Contains(PageTableEntry_flags(entry), PRESENT) THEN
        LET a == provider_allocate(ps) IN
        IF ~a.ok THEN [res |-> "oom", ps |-> a.ps, tbls |-> tbls, addr |-> 0]
        ELSE [res |-> "ok", ps |-> a.ps,
              tbls |-> Put(Zero(tbls, a.addr), page_table, i,
                           PageTableEntry_new(a.addr, BitOr(PRESENT, WRITABLE))),
              addr |-> a.addr]
    ELSE IF Contains(PageTableEntry_flags(entry), HUGE_PAGE)
    THEN [res |-> "already_mapped", ps |-> ps, tbls |-> tbls, addr |-> 0]
    ELSE [res |-> "ok", ps |-> ps, tbls |-> tbls, addr |-> PageTableEntry_addr(entry)]

\* get_page_entry: "ok" when the entry is not present.
get_page_entry(tbls, page_table, i) ==
    IF Contains(PageTableEntry_flags(Get(tbls, page_table, i)), PRESENT)
    THEN "already_mapped" ELSE "ok"

\* A failed debug_assert! of an alignment, in a build that has them.
Misaligned(debug, virt_addr, phys_addr, size) ==
    debug /\ (virt_addr % size # 0 \/ phys_addr % size # 0)

Panicked(ps, tbls) == [res |-> "panic", ps |-> ps, tbls |-> tbls]

map_1g(ps, tbls, p4, virt_addr, phys_addr, flags, debug) ==
    IF Misaligned(debug, virt_addr, phys_addr, ONE_GIGABYTE) THEN Panicked(ps, tbls)
    ELSE
    LET pml4e == get_directory_entry(ps, tbls, p4, pml4e_index(virt_addr)) IN
    IF pml4e.res # "ok" THEN [res |-> pml4e.res, ps |-> pml4e.ps, tbls |-> pml4e.tbls]
    ELSE IF get_page_entry(pml4e.tbls, pml4e.addr, pdpte_index(virt_addr)) # "ok"
    THEN [res |-> "already_mapped", ps |-> pml4e.ps, tbls |-> pml4e.tbls]
    ELSE [res |-> "ok", ps |-> pml4e.ps,
          tbls |-> Put(pml4e.tbls, pml4e.addr, pdpte_index(virt_addr),
                       PageTableEntry_new(phys_addr, BitOr(flags, HUGE_PAGE)))]

map_2m(ps, tbls, l4, virt_addr, phys_addr, flags, debug) ==
    IF Misaligned(debug, virt_addr, phys_addr, TWO_MEGABYTES) THEN Panicked(ps, tbls)
    ELSE
    LET pml4e == get_directory_entry(ps, tbls, l4, pml4e_index(virt_addr)) IN
    IF pml4e.res # "ok" THEN [res |-> pml4e.res, ps |-> pml4e.ps, tbls |-> pml4e.tbls]
    ELSE
    LET pdpte == get_directory_entry(pml4e.ps, pml4e.tbls, pml4e.addr, pdpte_index(virt_addr)) IN
    IF pdpte.res # "ok" THEN [res |-> pdpte.res, ps |-> pdpte.ps, tbls |-> pdpte.tbls]
    ELSE IF get_page_entry(pdpte.tbls, pdpte.addr, pde_index(virt_addr)) # "ok"
    THEN [res |-> "already_mapped", ps |-> pdpte.ps, tbls |-> pdpte.tbls]
    ELSE [res |-> "ok", ps |-> pdpte.ps,
          tbls |-> Put(pdpte.tbls, pdpte.addr, pde_index(virt_addr),
                       PageTableEntry_new(phys_addr, BitOr(flags, HUGE_PAGE)))]

map_4k(ps, tbls, pml4, virt_addr, phys_addr, flags, debug) ==
    IF Misaligned(debug, virt_addr, phys_addr, FOUR_KILOBYTES) THEN Panicked(ps, tbls)
    ELSE
    LET pml4e == get_directory_entry(ps, tbls, pml4, pml4e_index(virt_addr)) IN
    IF pml4e.res # "ok" THEN [res |-> pml4e.res, ps |-> pml4e.ps, tbls |-> pml4e.tbls]
    ELSE
    LET pdpte == get_directory_entry(pml4e.ps, pml4e.tbls, pml4e.addr, pdpte_index(virt_addr)) IN
    IF pdpte.res # "ok" THEN [res |-> pdpte.res, ps |-> pdpte.ps, tbls |-> pdpte.tbls]
    ELSE
    LET pde == get_directory_entry(pdpte.ps, pdpte.tbls, pdpte.addr, pde_index(virt_addr)) IN
    IF pde.res # "ok" THEN [res |-> pde.res, ps |-> pde.ps, tbls |-> pde.tbls]
    ELSE IF get_page_entry(pde.tbls, pde.addr, pte_index(virt_addr)) # "ok"
    THEN [res |-> "already_mapped", ps |-> pde.ps, tbls |-> pde.tbls]
    ELSE [res |-> "ok", ps |-> pde.ps,
          tbls |-> Put(pde.tbls, pde.addr, pte_index(virt_addr),
                       PageTableEntry_new(phys_addr, flags))]

\* One iteration of the loop of map_range: the mapping made and the range
\* that is left.
map_range_step(ps, tbls, l4, r, debug) ==
    IF r.amount >= ONE_GIGABYTE THEN
        [m |-> map_1g(ps, tbls, l4, r.virt, r.phys, r.flags, debug), size |-> "1g",
         range |-> [r EXCEPT !.amount = @ - ONE_GIGABYTE,
                             !.virt = @ + ONE_GIGABYTE,
                             !.phys = @ + ONE_GIGABYTE]]
    ELSE IF r.amount >= TWO_MEGABYTES THEN
        [m |-> map_2m(ps, tbls, l4, r.virt, r.phys, r.flags, debug), size |-> "2m",
         range |-> [r EXCEPT !.amount = @ - TWO_MEGABYTES,
                             !.virt = @ + TWO_MEGABYTES,
                             !.phys = @ + TWO_MEGABYTES]]
    ELSE
        [m |-> map_4k(ps, tbls, l4, r.virt, r.phys, r.flags, debug), size |-> "4k",
         range |-> [r EXCEPT !.amount = IF @ < FOUR_KILOBYTES THEN 0 ELSE @ - FOUR_KILOBYTES,
                             !.virt = @ + FOUR_KILOBYTES,
                             !.phys = @ + FOUR_KILOBYTES]]

\* The two ranges of setup_paging.
IdentityRange(p) ==
    [virt |-> 0, phys |-> 0, amount |-> p.upper_bound, flags |-> BitOr(PRESENT, WRITABLE)]

KernelRange(p) ==
    [virt |-> p.kernel_virt, phys |-> p.kernel_phys, amount |-> p.kernel_size,
     flags |-> BitOr(BitOr(PRESENT, WRITABLE), GLOBAL)]

\* Where setup_paging is once the range of position pc is `range`: in the
\* same loop while an amount is left, then in the next range, then at the
\* load of CR3.
RECURSIVE Advance(_, _, _)
Advance(p, pc, range) ==
    IF pc = "done" \/ range.amount # 0 THEN [p EXCEPT !.pc = pc, !.range = range]
    ELSE IF pc = "identity" THEN Advance(p, "kernel", KernelRange(p))
    ELSE Advance(p, "done", NoRange)

\* ------------------------------------------------------------------------
\* setup_paging at boot, one call of the provider or one iteration of
\* map_range at a time.
\* ------------------------------------------------------------------------

\* Greatest number of 4 KiB pages in a range.
MaxSmallPages == 2

BootMemoryMaps ==
    { <<>>,
      <<Seg(4096, 4096), Seg(8192, 4096)>>,
      <<Seg(4096, 12288), Seg(20480, 4096)>>,
      <<Seg(4096, 8192), Seg(16384, 20480)>> }

\* upper_bound: a few pages, 2 MiB, 2 MiB and a page, 1 GiB, 1 GiB and 2 MiB.
UpperBounds ==
    { k * FOUR_KILOBYTES : k \in 0..MaxSmallPages }
        \cup {TWO_MEGABYTES, TWO_MEGABYTES + FOUR_KILOBYTES, ONE_GIGABYTE,
              ONE_GIGABYTE + TWO_MEGABYTES}

\* Where the kernel is linked: in the first 2 MiB, at 2 MiB, at 1 GiB (the
\* real kernel is at 0xffff_ffff_8000_0000, a multiple of 1 GiB too).
KernelVirts == {FOUR_KILOBYTES, TWO_MEGABYTES, ONE_GIGABYTE}

KernelPhys == {1048576, TWO_MEGABYTES}

KernelSizes == { k * FOUR_KILOBYTES : k \in 1..MaxSmallPages } \cup {100, TWO_MEGABYTES}

InitBoot ==
    /\ usable \in BootMemoryMaps
    /\ SetPageStateInit(usable)
    /\ held = <<>>
    /\ boxes = <<>>
    /\ last = NoOp
    /\ NoMapper
    /\ debug_build \in BOOLEAN
    /\ slab_list = <<>>
    /\ live = <<>>
    /\ mem = <<>>
    /\ NoSyscall
    /\ NoPaging
    /\ NoBootstrap
    /\ NoLogger
    /\ NoThreads
    /\ NoContainer

\* setup_paging up to its first map_range: the PML4 is taken from the
\* provider and zeroed.
SetupPaging ==
    /\ paging.pc = "boot"
    /\ \E ub \in UpperBounds, kp \in KernelPhys, kv \in KernelVirts, ks \in KernelSizes :
        \E a \in {provider_allocate(ProviderState)} :
            /\ SetProviderState(a.ps)
            /\ l4_table' = IF a.ok THEN a.addr ELSE l4_table
            /\ tables' = IF a.ok THEN Zero(tables, a.addr) ELSE tables
            /\ paging' =
                 LET p == [paging EXCEPT !.upper_bound = ub, !.kernel_phys = kp,
                                         !.kernel_virt = kv, !.kernel_size = ks] IN
                 IF a.ok THEN Advance(p, "identity", IdentityRange(p))
                 ELSE [p EXCEPT !.pc = "failed"]
            /\ last' = [op |-> "setup_paging", res |-> IF a.ok THEN "ok" ELSE "oom",
                        addr |-> a.addr, fresh |-> FALSE, virt |-> 0]
    /\ UNCHANGED <<usable, segments, free_pages, nodes, held, boxes, mapper, mapper_allocs,
                   dropped, ops, slabVars, sysVars, boot, cpu, threads, container>>

\* One iteration of map_range; an error ends setup_paging, the end of the
\* last range loads CR3.
MapRange ==
    /\ paging.pc \in {"identity", "kernel"}
    /\ \E s \in {map_range_step(ProviderState, tables, l4_table, paging.range, debug_build)} :
        /\ SetProviderState(s.m.ps)
        /\ tables' = s.m.tbls
        /\ paging' = IF s.m.res # "ok" THEN [paging EXCEPT !.pc = "failed"]
                     ELSE LET p == Advance(paging, paging.pc, s.range) IN
                          IF p.pc = "done" THEN [p EXCEPT !.cr3 = l4_table] ELSE p
        /\ last' = [op |-> "map_" \o s.size, res |-> s.m.res, addr |-> paging.range.phys,
                    fresh |-> FALSE, virt |-> paging.range.virt]
    /\ UNCHANGED <<usable, segments, free_pages, nodes, held, boxes, mapper, l4_table,
                   mapper_allocs, dropped, ops, slabVars, sysVars, boot, cpu, threads, container>>

NextBoot == SetupPaging \/ MapRange

SpecBoot == InitBoot /\ [][NextBoot]_vars

\* The entry a walk for v meets at an upper level and does not go below:
\* a present huge-page entry, as [table, index, entry]; none when the walk
\* reaches `bottom` (the level of the entry being mapped) or an entry that
\* is not present.
RECURSIVE HugeOnPath(_, _, _, _, _)
HugeOnPath(tbls, table, v, level, bottom) ==
    LET i == Shr(v, 12 + 9 * (level - 1)) % 512
        e == Get(tbls, table, i) IN
    IF level = bottom \/ ~Contains(PageTableEntry_flags(e), PRESENT) THEN {}
    ELSE IF Contains(PageTableEntry_flags(e), HUGE_PAGE)
    THEN {[table |-> table, index |-> i, entry |-> e]}
    ELSE HugeOnPath(tbls, PageTableEntry_addr(e), v, level - 1, bottom)

\* The level of the entry a mapping operation writes.
BottomOf(op) == IF op = "map_1g" THEN 3 ELSE IF op = "map_2m" THEN 2 ELSE 1

\* ------------------------------------------------------------------------
\* Claims on entries that are already there.
\* ------------------------------------------------------------------------

\* C17: create_mapping(v, p, flags) on a virtual page whose entry is already
\* in use (present) fails with AlreadyMapped carrying the physical address
\* stored in that entry, and leaves the entry and every table unchanged.
C17_AlreadyMappedKeepsEntry ==
    [][(/\ last'.op = "create_mapping"
        /\ ops' = ops + 1
        /\ Contains(PageTableEntry_flags(WalkFrom(tables, l4_table, last'.virt, 4)), PRESENT))
          => /\ last'.res = "already_mapped"
             /\ last'.mapped = PageTableEntry_addr(WalkFrom(tables, l4_table, last'.virt, 4))
             /\ tables' = tables]_vars

C17_Witness ==
    /\ last.op = "create_mapping"
    /\ last.res = "already_mapped"
    /\ last.addr = 45056
    /\ last.mapped = 40960
    /\ PageTableEntry_addr(WalkFrom(tables, l4_table, last.virt, 4)) = 40960

\* C18: a page-table entry whose present bit is clear is treated as unused
\* whatever its other bits are: create_mapping and allocate_mapping on a
\* virtual page whose leaf entry is not present do not fail with
\* AlreadyMapped.
C18_NonPresentIsUnused ==
    [][(/\ last'.op \in {"create_mapping", "allocate_mapping"}
        /\ ops' = ops + 1
        /\ ~Contains(PageTableEntry_flags(WalkFrom(tables, l4_table, last'.virt, 4)), PRESENT))
          => last'.res # "already_mapped"]_vars

\* C19: when the table walk of a mapping operation meets a present
\* huge-page entry at an intermediate level, the operation fails with
\* AlreadyMapped; the huge-page entry is not overwritten, and no table is
\* written or allocated as if the entry pointed to a table.
C19_HugePageStopsWalk ==
    [][(/\ last'.op \in {"map_1g", "map_2m", "map_4k"}
        /\ paging.pc \in {"identity", "kernel"}
        /\ last'.res # "panic"
        /\ HugeOnPath(tables, l4_table, paging.range.virt, 4, BottomOf(last'.op)) # {})
          => /\ last'.res = "already_mapped"
             /\ paging'.pc = "failed"
             /\ tables' = tables
             /\ provided' = provided]_vars

C19_Witness ==
    /\ last.op = "map_4k"
    /\ last.res = "already_mapped"
    /\ paging.pc = "failed"
    /\ HugeOnPath(tables, l4_table, last.virt, 4, 1) # {}

\* The frames referenced by the entries without the owned flag in the
\* tables Drop visits from `table` (it goes below owned entries only).
RECURSIVE UnownedFrames(_, _, _)
UnownedFrames(tbls, table, level) ==
    LET used == { i \in DOMAIN TableAt(tbls, table) : Get(tbls, table, i) # UNUSED }
        owned == { i \in used : Contains(PageTableEntry_flags(Get(tbls, table, i)), OWNED) }
    IN { PageTableEntry_addr(Get(tbls, table, i)) : i \in used \ owned }
           \cup (IF level > 1
                 THEN UNION { UnownedFrames(tbls, PageTableEntry_addr(Get(tbls, table, i)), level - 1)
                                : i \in owned }
                 ELSE {})

\* C20: dropping a mapper deallocates no frame referenced by an entry that
\* lacks the owned flag (the kernel pages of map_kernel, the frames mapped
\* with create_mapping).
C20_DropSkipsUnowned ==
    mapper = "dropped" =>
        Range(dropped) \cap UnownedFrames(tables, l4_table, 4) = {}

\* ------------------------------------------------------------------------
\* The bootstrap (boot/limine/mod.rs, entry_point_inner), one statement
\* group at a time.  boot.env is what the bootloader and the later steps
\* answer; boot.log is the sequence of the steps that have finished.
\* ------------------------------------------------------------------------

\* The logger's closure with an sti at its end whatever RFLAGS held.
logger_call_sti(iflag) == TRUE

\* One record through the logger's closure (logger.rs:33-50), as the
\* interrupt flag it leaves: cli and, after the write, sti are executed
\* only when the flag was set on entry.
logger_call(iflag) ==
    LET restore_interrupts == iflag
        masked == IF restore_interrupts THEN FALSE ELSE iflag
    IN IF restore_interrupts THEN TRUE ELSE masked

\* A statement group that logs: nd_log::trace!, info!, warn! or error!.
Log(b) == [b EXCEPT !.iflag = logger_call(@)]

\* crate::die(): cli, then hlt for ever.
die(b) == [b EXCEPT !.pc = "halted", !.iflag = FALSE]

\* The statement group that follows a group of entry_point_inner when the
\* group did not end the bootstrap, with the provider built after the
\* system-info record is published and the tables set up last.
entry_point_inner_next_reordered(pc) ==
    CASE pc = "logger" -> "responses"
      [] pc = "responses" -> "sys_info"
      [] pc = "sys_info" -> "provider"
      [] pc = "provider" -> "page_table"
      [] pc = "page_table" -> "allocator"
      [] pc = "allocator" -> "cr3"
      [] pc = "cr3" -> "tables"
      [] pc = "tables" -> "sti"
      [] pc = "sti" -> "init"
      [] pc = "init" -> "ring3"

\* The statement group that follows a group of entry_point_inner when the
\* group did not end the bootstrap.
entry_point_inner_next(pc) ==
    CASE pc = "logger" -> "responses"
      [] pc = "responses" -> "provider"
      [] pc = "provider" -> "sys_info"
      [] pc = "sys_info" -> "tables"
      [] pc = "tables" -> "page_table"
      [] pc = "page_table" -> "allocator"
      [] pc = "allocator" -> "cr3"
      [] pc = "cr3" -> "sti"
      [] pc = "sti" -> "init"
      [] pc = "init" -> "ring3"

\* A group finished: its steps are appended to the log.
Finished(b, steps) ==
    [b EXCEPT !.pc = entry_point_inner_next(b.pc), !.log = @ \o steps]

\* The let-else tests of the responses and of the kernel's virtual base,
\* without the test of the nd_init module.
responses_missing_unchecked_module(env) ==
    \/ ~env.kernel_addr
    \/ ~env.memmap
    \/ ~env.hhdm
    \/ ~env.virt_base_matches

\* The let-else tests of the responses (KERNEL_ADDR, MEMORY_MAP, HHDM,
\* find_init_program) and the test of the kernel's virtual base: TRUE when
\* one of them ends in crate::die().
responses_missing(env) ==
    \/ ~env.kernel_addr
    \/ ~env.memmap
    \/ ~env.hhdm
    \/ ~env.nd_init
    \/ ~env.virt_base_matches

\* SysInfoTok::initialize that writes nothing.
SysInfoTok_initialize_nothing(cell, sys_info) == cell

\* SysInfoTok::initialize: SYS_INFO.write(sys_info).
SysInfoTok_initialize(cell, sys_info) ==
    [value |-> sys_info, writes |-> cell.writes + 1]

\* The record the bootstrap publishes.
BootSysInfo(env) ==
    [kernel_phys_addr |-> env.kernel_phys_addr,
     kernel_virt_addr |-> 1073741824,
     kernel_virt_end_addr |-> 1073741824 + 6144,
     hhdm_start |-> env.hhdm_start]

\* What the bootloader answers and what the later steps run into.
BootEnvs ==
    [kernel_addr : BOOLEAN, memmap : BOOLEAN, hhdm : BOOLEAN, nd_init : BOOLEAN,
     virt_base_matches : BOOLEAN,
     kernel_phys_addr : {1048576, 2097152},
     hhdm_start : {0, 1073741824},
     page_table : {"ok", "oom"},
     spawn : {"ok", "already_mapped", "oom"}]

InitBootstrap ==
    /\ usable = <<>>
    /\ SetPageStateInit(usable)
    /\ held = <<>>
    /\ boxes = <<>>
    /\ last = NoOp
    /\ NoMapper
    /\ debug_build \in BOOLEAN
    /\ slab_list = <<>>
    /\ live = <<>>
    /\ mem = <<>>
    /\ NoSyscall
    /\ NoPaging
    /\ NoLogger
    /\ NoThreads
    /\ NoContainer
    /\ \E env \in BootEnvs :
         boot = [pc |-> "logger", env |-> env, log |-> <<>>, iflag |-> FALSE,
                 sys_info |-> Uninit, read |-> <<>>]

BootUnchanged ==
    UNCHANGED <<paging, cpu, threads, container, sysVars, usable, segments, index, free_pages, nodes,
                provided, calls, held, boxes, last, mapperVars, slabVars>>

\* crate::x86_64::initialize_logger(), which ends with a trace! record.
BootLogger ==
    /\ boot.pc = "logger"
    /\ boot' = Finished(Log(boot), <<"logger">>)
    /\ BootUnchanged

\* The responses of the bootloader, find_init_program and the test of the
\* virtual base.
BootResponses ==
    /\ boot.pc = "responses"
    /\ boot' = IF responses_missing(boot.env) THEN die(Log(boot))
               ELSE Finished(Log(boot), <<"boot_info">>)
    /\ BootUnchanged

\* PageProvider::new(&mut available_mem).
BootProvider ==
    /\ boot.pc = "provider"
    /\ boot' = Finished(boot, <<"provider">>)
    /\ BootUnchanged

\* SysInfoTok::initialize(SysInfo { .. }).
BootPublishSysInfo ==
    /\ boot.pc = "sys_info"
    /\ boot' = [Finished(boot, <<"sys_info">>) EXCEPT
                  !.sys_info = SysInfoTok_initialize(boot.sys_info, BootSysInfo(boot.env))]
    /\ BootUnchanged

\* setup_gdt, setup_idt, setup_system_calls, initialize_lapic.
BootTables ==
    /\ boot.pc = "tables"
    /\ boot' = Finished(boot, <<"gdt", "idt", "syscall", "lapic">>)
    /\ BootUnchanged

\* generate_page_table(..): the PML4, or an error that ends in crate::die().
BootPageTable ==
    /\ boot.pc = "page_table"
    /\ boot' = IF boot.env.page_table # "ok" THEN die(Log(boot))
               ELSE Finished(boot, <<"page_table_built">>)
    /\ BootUnchanged

\* PageAllocatorTok::initialize(sys_info, page_provider): the allocator
\* keeps the token and reads the record through it.
BootAllocator ==
    /\ boot.pc = "allocator"
    /\ boot' = [Finished(boot, <<"allocator">>) EXCEPT
                  !.read = Append(@, boot.sys_info.value)]
    /\ BootUnchanged

\* nd_log::trace!("Switching up address space..."), set_cr3(Cr3::new(pml4, ..)).
BootSetCr3 ==
    /\ boot.pc = "cr3"
    /\ boot' = Finished(Log(boot), <<"page_table_installed">>)
    /\ BootUnchanged

\* nd_x86_64::sti().
BootSti ==
    /\ boot.pc = "sti"
    /\ boot' = [Finished(boot, <<"interrupts">>) EXCEPT !.iflag = TRUE]
    /\ BootUnchanged

\* spawn_init_process(page_allocator, nd_init.data()): it reads hhdm_start
\* of the record, then sysretq leaves for ring 3; or an error.
BootSpawnInit ==
    /\ boot.pc = "init"
    /\ boot' =
         LET b == [boot EXCEPT !.read = Append(@, boot.sys_info.value)] IN
         IF boot.env.spawn = "ok" THEN Finished(b, <<"init">>)
         ELSE IF boot.env.spawn = "oom" THEN die(Log(b))
         ELSE [b EXCEPT !.pc = IF debug_build THEN "panic" ELSE "ub"]
    /\ BootUnchanged

NextBootstrap ==
    \/ BootLogger \/ BootResponses \/ BootProvider \/ BootPublishSysInfo \/ BootTables
    \/ BootPageTable \/ BootAllocator \/ BootSetCr3 \/ BootSti \/ BootSpawnInit

SpecBootstrap == InitBootstrap /\ [][NextBootstrap]_vars

\* s is a prefix of t.
IsPrefix(s, t) == Len(s) <= Len(t) /\ SubSeq(t, 1, Len(s)) = s

\* The position of a step in a sequence of steps (0 when it is not there).
PositionIn(order, x) ==
    IF \E i \in 1..Len(order) : order[i] = x
    THEN CHOOSE i \in 1..Len(order) : order[i] = x ELSE 0

\* ------------------------------------------------------------------------
\* The logger (logger.rs): the closure initialize_logger installs, one
\* instruction group at a time, on a CPU that takes maskable interrupts
\* whenever its interrupt flag is set.
\* ------------------------------------------------------------------------

\* Greatest number of records logged in one behaviour.
MaxRecords == 3

\* Greatest number of bytes of a record.
MaxRecordLen == 2

\* Greatest number of interrupts served in one behaviour.
MaxInterrupts == 2

\* Where the closure goes after it read RFLAGS, without the cli.
logger_after_flags_nocli(restore_interrupts) == "write"

\* Where the closure goes after it read RFLAGS: `if restore_interrupts {
\* cli() }`, then the write.
logger_after_flags(restore_interrupts) ==
    IF restore_interrupts THEN "cli" ELSE "write"

InitLogger ==
    /\ usable = <<>>
    /\ SetPageStateInit(usable)
    /\ held = <<>>
    /\ boxes = <<>>
    /\ last = NoOp
    /\ NoMapper
    /\ NoSlab
    /\ NoSyscall
    /\ NoPaging
    /\ NoBootstrap
    /\ NoThreads
    /\ NoContainer
    /\ \E f \in BOOLEAN : cpu = [NoLog EXCEPT !.iflag = f]

LoggerUnchanged ==
    UNCHANGED <<paging, boot, threads, container, sysVars, usable, segments, index, free_pages, nodes,
                provided, calls, held, boxes, last, mapperVars, slabVars>>

\* Kernel code outside the logger sets or clears the interrupt flag (sti
\* at the end of the bootstrap, cli in die).
KernelSetFlag ==
    /\ cpu.pc = "idle"
    /\ \E f \in BOOLEAN : f # cpu.iflag /\ cpu' = [cpu EXCEPT !.iflag = f]
    /\ LoggerUnchanged

\* nd_log::..!(..): the closure is entered with a record of some length.
LogCall ==
    /\ cpu.pc = "idle"
    /\ cpu.records < MaxRecords
    /\ \E n \in 1..MaxRecordLen :
         cpu' = [cpu EXCEPT !.pc = "flags", !.left = n]
    /\ LoggerUnchanged

\* let restore_interrupts = rflags().contains(RFlags::INTERRUPT).
LogReadFlags ==
    /\ cpu.pc = "flags"
    /\ cpu' = [cpu EXCEPT !.restore_interrupts = cpu.iflag,
                          !.pc = logger_after_flags(cpu.iflag)]
    /\ LoggerUnchanged

\* cli().
LogCli ==
    /\ cpu.pc = "cli"
    /\ cpu' = [cpu EXCEPT !.iflag = FALSE, !.pc = "write"]
    /\ LoggerUnchanged

\* writeln!(serial_out, ..): one byte goes out of COM1; after the last one
\* `if restore_interrupts { sti() }` is next.
LogWriteByte ==
    /\ cpu.pc = "write"
    /\ cpu' = [cpu EXCEPT !.left = @ - 1,
                          !.bytes_with_if = @ + (IF cpu.iflag THEN 1 ELSE 0),
                          !.pc = IF cpu.left = 1 THEN "sti" ELSE "write"]
    /\ LoggerUnchanged

\* if restore_interrupts { sti() }, and the closure returns.
LogSti ==
    /\ cpu.pc = "sti"
    /\ cpu' = [cpu EXCEPT !.iflag = IF cpu.restore_interrupts THEN TRUE ELSE @,
                          !.pc = "idle",
                          !.records = @ + 1]
    /\ LoggerUnchanged

\* A maskable interrupt (the APIC timer, through an interrupt gate): it is
\* taken only when the interrupt flag is set; the handler runs with the
\* flag clear and iretq restores it.
Interrupt ==
    /\ cpu.iflag
    /\ cpu.interrupts < MaxInterrupts
    /\ cpu' = [cpu EXCEPT !.interrupts = @ + 1,
                          !.in_write = @ + (IF cpu.pc = "write" THEN 1 ELSE 0)]
    /\ LoggerUnchanged

NextLogger ==
    KernelSetFlag \/ LogCall \/ LogReadFlags \/ LogCli \/ LogWriteByte \/ LogSti \/ Interrupt

SpecLogger == InitLogger /\ [][NextLogger]_vars

\* ------------------------------------------------------------------------
\* The small-object allocator of allocator/paging.rs, whose list hangs off
\* `head: Mutex<Option<PageBox<PageMetaNode>>>`.  One caller; `threads` is
\* the call in progress: where it stands, whether the mutex is held and
\* what the call keeps in its locals.
\* ------------------------------------------------------------------------

NoMeta == [page |-> 0, state |-> {}]

\* No call in progress, the mutex free.
NoCall ==
    [pc |-> "idle", head_locked |-> FALSE, from |-> "none", size |-> 0, align |-> 0,
     meta |-> NoMeta, result |-> 0, block |-> 0, node |-> 0, page_idx |-> 0]

InitSlabLocked ==
    /\ usable \in SlabMemoryMaps
    /\ SetPageStateInit(usable)
    /\ held = <<>>
    /\ boxes = <<>>
    /\ last = NoOp
    /\ NoMapper
    /\ debug_build \in BOOLEAN
    /\ slab_list = <<>>
    /\ live = <<>>
    /\ mem = <<>>
    /\ NoSyscall
    /\ NoPaging
    /\ NoBootstrap
    /\ NoLogger
    /\ threads = NoCall
    /\ NoContainer

LockedUnchanged ==
    UNCHANGED <<paging, boot, cpu, container, sysVars, usable, held, boxes, mapper, l4_table, tables,
                mapper_allocs, dropped, debug_build>>

\* Mutex::lock returns only once the mutex is free: it spins while another
\* guard exists, also a guard of the caller itself.
Mutex_lock(locked) == ~locked

\* The rest of PageBasedAllocator::grow after `self.allocate(new_layout)`
\* returned r: the copy, the release of the old slots in the page found by
\* the walk, and for grow_zeroed the zeroing of the added bytes.
grow_resume(r, c, m, debug) ==
    IF r.res # "ok"
    THEN [res |-> r.res, ptr |-> live[c.block].ptr, list |-> r.list, st |-> r.st, mem |-> m]
    ELSE
        LET ptr == live[c.block].ptr
            slot_count == SlotCount(live[c.block].size)
            cp == copy_nonoverlapping(m, ptr, r.ptr, slot_count)
            mk == PageMeta_mask(SlotIdx(ptr), slot_count, debug)
            state == r.list[c.node].pages[c.page_idx].state
        IN
        IF cp.ub
        THEN [res |-> "ub", ptr |-> r.ptr, list |-> r.list, st |-> r.st, mem |-> m]
        ELSE IF mk.panic \/ (debug /\ ~(mk.bits \subseteq state))
        THEN [res |-> "panic", ptr |-> r.ptr, list |-> r.list, st |-> r.st, mem |-> cp.mem]
        ELSE [res |-> "ok", ptr |-> r.ptr,
              list |-> [r.list EXCEPT ![c.node].pages[c.page_idx].state = state \ mk.bits],
              st |-> r.st,
              mem |-> IF c.from = "grow_zeroed"
                      THEN WriteSlots(cp.mem,
                                      SlotsAt(r.ptr, SlotCount(c.size)) \ SlotsAt(r.ptr, slot_count),
                                      0)
                      ELSE cp.mem]

\* PageBasedAllocator::allocate returns r = [res, ptr, list, st] and its
\* guard is dropped; called from grow, grow goes on and returns in turn.
LockedReturn(r) ==
    IF threads.from = "caller"
    THEN /\ SetPageState(r.st)
         /\ slab_list' = r.list
         /\ live' = IF r.res = "ok"
                    THEN Append(live, [ptr |-> r.ptr, size |-> threads.size,
                                       align |-> threads.align])
                    ELSE live
         /\ mem' = IF r.res = "ok"
                   THEN WriteSlots(mem, SlotsAt(r.ptr, SlotCount(threads.size)), ops)
                   ELSE mem
         /\ last' = [op |-> "slab_allocate", res |-> r.res, addr |-> r.ptr,
                     fresh |-> FALSE, virt |-> 0, size |-> threads.size,
                     align |-> threads.align]
         /\ threads' = NoCall
    ELSE \E g \in {grow_resume(r, threads, mem, debug_build)} :
         /\ SetPageState(g.st)
         /\ slab_list' = g.list
         /\ live' = IF g.res = "ok"
                    THEN [live EXCEPT ![threads.block] =
                             [ptr |-> g.ptr, size |-> threads.size, align |-> threads.align]]
                    ELSE live
         /\ mem' = g.mem
         /\ last' = [op |-> "slab_grow", res |-> g.res, addr |-> g.ptr,
                     fresh |-> FALSE, virt |-> 0,
                     old_ptr |-> live[threads.block].ptr,
                     old_size |-> live[threads.block].size, size |-> threads.size,
                     align |-> threads.align,
                     old_data |-> Contents(mem, live[threads.block].ptr,
                                           SlotCount(live[threads.block].size))]
         /\ threads' = NoCall

\* PageBasedAllocator::allocate(layout), up to `self.head.lock()`.
LockedAllocateCall ==
    /\ threads.pc = "idle"
    /\ ~Hung
    /\ Len(live) < MaxLive
    /\ ops < MaxSlabOps
    /\ \E l \in Layouts :
         IF l[1] > PAGE_SIZE \/ l[2] > PAGE_SIZE
         THEN /\ last' = [op |-> "slab_allocate", res |-> "err", addr |-> 0,
                          fresh |-> FALSE, virt |-> 0, size |-> l[1], align |-> l[2]]
              /\ threads' = threads
         ELSE /\ last' = last
              /\ threads' = [threads EXCEPT !.pc = "allocate_lock", !.from = "caller",
                                            !.size = l[1], !.align = l[2]]
    /\ ops' = ops + 1
    /\ UNCHANGED <<segments, index, free_pages, nodes, provided, calls, slab_list, live, mem>>
    /\ LockedUnchanged

\* `self.head.lock()` of allocate, the walk over the nodes with
\* allocate_in_existing and, when no page has room, PageMeta::new and
\* allocate_at_unchecked(0, slot_count).
LockedAllocateLock ==
    /\ threads.pc = "allocate_lock"
    /\ Mutex_lock(threads.head_locked)
    /\ \E f \in {NodesFindMap(slab_list, 1, SlotCount(threads.size), SlotAlign(threads.align),
                              debug_build)} :
         IF f.kind # "miss"
         THEN LockedReturn([res |-> IF f.kind = "hit" THEN "ok" ELSE f.kind, ptr |-> f.ptr,
                            list |-> f.list, st |-> PageState])
         ELSE \E a \in {PageAllocator_allocate(PageState)} :
              \E m \in {PageMeta_mask(0, SlotCount(threads.size), debug_build)} :
                IF a.res # "ok"
                THEN LockedReturn([res |-> AllocErr(a.res), ptr |-> 0, list |-> slab_list,
                                   st |-> a.st])
                ELSE IF m.panic
                THEN LockedReturn([res |-> "panic", ptr |-> 0, list |-> slab_list,
                                   st |-> a.st])
                ELSE /\ SetPageState(a.st)
                     /\ threads' = [threads EXCEPT !.pc = "allocate_push",
                                                   !.head_locked = TRUE,
                                                   !.meta = [page |-> a.addr, state |-> m.bits],
                                                   !.result = a.addr]
                     /\ UNCHANGED <<slab_list, live, mem, last>>
    /\ UNCHANGED ops
    /\ LockedUnchanged

\* What a turn of `while let Some(node) = cur { match node.pages.push(meta) ..}`
\* with cur = &mut lock comes to: the loop is left for the insertion of the
\* first node, the page is pushed into the head node, or the head node is
\* full, gives the page back and is looked at again.
push_turn(list) ==
    IF list = <<>> THEN "insert"
    ELSE IF Len(list[1].pages) < MAX_META_COUNT THEN "push"
    ELSE "again"

\* One turn of `while let Some(node) = cur { match node.pages.push(meta) ..}`
\* with cur = &mut lock, or what follows the loop.  The loop never moves
\* cur: a head node that is full gives the page back (`meta = err`) and the
\* next turn looks at the head node again.
LockedAllocatePush ==
    /\ threads.pc = "allocate_push"
    /\ IF push_turn(slab_list) = "insert"
       THEN \* cur.insert(PageBox::new(PageMetaNode::new())?)
            \E n \in {PageAllocator_allocate(PageState)} :
              IF n.res = "ok"
              THEN LockedReturn([res |-> "ok", ptr |-> threads.result,
                                 list |-> <<[frame |-> n.addr, pages |-> <<threads.meta>>]>>,
                                 st |-> n.st])
              ELSE IF n.res = "hang"
              THEN LockedReturn([res |-> "hang", ptr |-> 0, list |-> slab_list, st |-> n.st])
              ELSE \* `meta` goes out of scope: its PageBox returns the frame.
                   \E d \in {PageAllocator_deallocate(n.st, threads.meta.page)} :
                     LockedReturn([res |-> IF d.res = "ok" THEN "err" ELSE d.res, ptr |-> 0,
                                   list |-> slab_list, st |-> d.st])
       ELSE IF push_turn(slab_list) = "push"
       THEN LockedReturn([res |-> "ok", ptr |-> threads.result,
                          list |-> [slab_list EXCEPT ![1].pages = Append(@, threads.meta)],
                          st |-> PageState])
       ELSE UNCHANGED <<segments, index, free_pages, nodes, provided, calls, slab_list, live,
                        mem, last, threads>>
    /\ UNCHANGED ops
    /\ LockedUnchanged

\* PageMetaNode::deallocate_unchecked over the nodes: the bits of the block
\* are cleared in the first page that includes ptr; the page stays.
RECURSIVE locked_deallocate_from(_, _, _, _, _)
locked_deallocate_from(list, k, ptr, slot_count, debug) ==
    IF k > Len(list)
    THEN \* debug_assert!(false, "did not find the block to deallocate")
         [res |-> IF debug THEN "panic" ELSE "ok", list |-> list]
    ELSE
        LET at == Position(list[k].pages, ptr)
            mk == PageMeta_mask(SlotIdx(ptr), slot_count, debug)
        IN
        IF at = 0 THEN locked_deallocate_from(list, k + 1, ptr, slot_count, debug)
        ELSE IF mk.panic \/ (debug /\ ~(mk.bits \subseteq list[k].pages[at].state))
        THEN [res |-> "panic", list |-> list]
        ELSE [res |-> "ok", list |-> [list EXCEPT ![k].pages[at].state = @ \ mk.bits]]

\* PageBasedAllocator::deallocate(ptr, layout) of a block the caller holds.
LockedDeallocate ==
    /\ threads.pc = "idle"
    /\ ~Hung
    /\ ops < MaxSlabOps
    /\ Mutex_lock(threads.head_locked)
    /\ \E i \in 1..Len(live) :
        \E r \in {locked_deallocate_from(slab_list, 1, live[i].ptr, SlotCount(live[i].size),
                                        debug_build)} :
        /\ slab_list' = r.list
        /\ live' = IF r.res = "ok" THEN Remove(live, i) ELSE live
        /\ last' = [op |-> "slab_deallocate", res |-> r.res, addr |-> live[i].ptr,
                    fresh |-> FALSE, virt |-> 0]
    /\ ops' = ops + 1
    /\ UNCHANGED <<segments, index, free_pages, nodes, provided, calls, mem, threads>>
    /\ LockedUnchanged

\* The walk of PageBasedAllocator::grow: "ok" (grown in place), "found"
\* (in page page_idx of node k, no room behind the block), "panic" or "ub".
RECURSIVE locked_grow_from(_, _, _, _, _, _)
locked_grow_from(list, k, ptr, slot_count, new_slot_count, debug) ==
    IF k > Len(list)
    THEN [kind |-> IF debug THEN "panic" ELSE "ub", list |-> list, node |-> 0, page_idx |-> 0]
    ELSE
        LET at == Position(list[k].pages, ptr) IN
        IF at = 0 THEN locked_grow_from(list, k + 1, ptr, slot_count, new_slot_count, debug)
        ELSE
            LET g == PageMeta_grow_unchecked(list[k].pages[at].state, SlotIdx(ptr),
                                             slot_count, new_slot_count, debug) IN
            [kind |-> IF g.kind = "err" THEN "found" ELSE g.kind,
             list |-> [list EXCEPT ![k].pages[at].state = g.state],
             node |-> k, page_idx |-> at]

\* PageBasedAllocator::grow, as itself or under grow_zeroed, up to its
\* return or to the `self.head.lock()` of the allocate it calls while its
\* own guard lives.
locked_grow(zeroed) ==
    /\ ops < MaxSlabOps
    /\ Mutex_lock(threads.head_locked)
    /\ \E i \in 1..Len(live), l \in Layouts :
        /\ l[1] >= live[i].size
        /\ \E g \in {locked_grow_from(slab_list, 1, live[i].ptr, SlotCount(live[i].size),
                                      SlotCount(l[1]), debug_build)} :
           LET record(res) ==
                   [op |-> "slab_grow", res |-> res, addr |-> live[i].ptr,
                    fresh |-> FALSE, virt |-> 0,
                    old_ptr |-> live[i].ptr, old_size |-> live[i].size, size |-> l[1],
                    align |-> l[2],
                    old_data |-> Contents(mem, live[i].ptr, SlotCount(live[i].size))]
           IN
           IF l[1] > PAGE_SIZE \/ l[2] > PAGE_SIZE
           THEN /\ last' = record("err")
                /\ UNCHANGED <<slab_list, live, mem, threads>>
           ELSE IF g.kind = "ok"
           THEN /\ slab_list' = g.list
                /\ live' = [live EXCEPT ![i] = [ptr |-> live[i].ptr, size |-> l[1],
                                                align |-> l[2]]]
                /\ mem' = IF zeroed
                          THEN WriteSlots(mem, SlotsAt(live[i].ptr, SlotCount(l[1]))
                                                 \ SlotsAt(live[i].ptr, SlotCount(live[i].size)),
                                          0)
                          ELSE mem
                /\ last' = record("ok")
                /\ threads' = threads
           ELSE IF g.kind = "found"
           THEN /\ threads' = [threads EXCEPT
                                 !.pc = "allocate_lock", !.head_locked = TRUE,
                                 !.from = IF zeroed THEN "grow_zeroed" ELSE "grow",
                                 !.size = l[1], !.align = l[2], !.block = i,
                                 !.node = g.node, !.page_idx = g.page_idx]
                /\ UNCHANGED <<slab_list, live, mem, last>>
           ELSE /\ last' = record(g.kind)
                /\ UNCHANGED <<slab_list, live, mem, threads>>
    /\ ops' = ops + 1
    /\ UNCHANGED <<segments, index, free_pages, nodes, provided, calls>>
    /\ LockedUnchanged

\* Allocator::grow(ptr, old_layout, new_layout) of a block the caller holds.
LockedGrow ==
    /\ threads.pc = "idle"
    /\ ~Hung
    /\ locked_grow(FALSE)

\* Allocator::grow_zeroed(ptr, old_layout, new_layout)
LockedGrowZeroed ==
    /\ threads.pc = "idle"
    /\ ~Hung
    /\ locked_grow(TRUE)

NextSlabLocked ==
    \/ LockedAllocateCall
    \/ LockedAllocateLock
    \/ LockedAllocatePush
    \/ LockedDeallocate
    \/ LockedGrow
    \/ LockedGrowZeroed

SpecSlabLocked == InitSlabLocked /\ [][NextSlabLocked]_vars

\* ------------------------------------------------------------------------
\* PageAllocator::allocate and PageAllocator::deallocate called from
\* several CPUs at once, one atomic access at a time.  A location `cur` is
\* NULL for &self.free_pages and n for &n.next; threads.locked is the set
\* of the nodes whose `pages` mutex is held.
\* ------------------------------------------------------------------------

\* The CPUs that call the allocator.
Callers == {1, 2}

\* Greatest number of calls one CPU makes in one behaviour.
MaxCallerOps == 3

ConcMemoryMaps ==
    { <<Seg(4096, 4096)>>,
      <<Seg(4096, 8192)>>,
      <<Seg(4096, 4096), Seg(12288, 8192)>> }

IdleCaller ==
    [pc |-> "idle", cur |-> NULL, node |-> NULL, addr |-> 0, page_index |-> 0,
     held |-> <<>>, ops |-> 0, res |-> "none"]

InitConcurrent ==
    /\ usable \in ConcMemoryMaps
    /\ SetPageStateInit(usable)
    /\ held = <<>>
    /\ boxes = <<>>
    /\ last = NoOp
    /\ NoMapper
    /\ NoSlab
    /\ NoSyscall
    /\ NoPaging
    /\ NoBootstrap
    /\ NoLogger
    /\ threads = [callers |-> [t \in Callers |-> IdleCaller], locked |-> {}, freed |-> {}]
    /\ NoContainer

ConcUnchanged ==
    UNCHANGED <<paging, boot, cpu, container, sysVars, usable, held, boxes, last, mapperVars, slabVars>>

\* cur.load(Acquire)
LoadCur(cur) == IF cur = NULL THEN free_pages ELSE nodes[cur].next

\* A caller's record is replaced.
SetCaller(t, c) == [threads EXCEPT !.callers[t] = c]

\* A caller enters allocate().
StartAllocate(t) ==
    /\ threads.callers[t].pc = "idle"
    /\ threads.callers[t].ops < MaxCallerOps
    /\ threads' = SetCaller(t, [threads.callers[t] EXCEPT
                                   !.pc = "a_load", !.cur = NULL, !.ops = @ + 1,
                                   !.res = "none"])
    /\ UNCHANGED <<segments, index, free_pages, nodes, provided, calls>>
    /\ ConcUnchanged

\* A caller enters deallocate(addr) with a frame it holds.
StartDeallocate(t) ==
    /\ threads.callers[t].pc = "idle"
    /\ threads.callers[t].ops < MaxCallerOps
    /\ \E i \in 1..Len(threads.callers[t].held) :
         threads' = SetCaller(t, [threads.callers[t] EXCEPT
                                    !.pc = "d_load", !.cur = NULL, !.ops = @ + 1,
                                    !.addr = threads.callers[t].held[i],
                                    !.held = Remove(@, i),
                                    !.res = "none"])
    /\ UNCHANGED <<segments, index, free_pages, nodes, provided, calls>>
    /\ ConcUnchanged

\* `while let Some(node) = cur.load(Acquire).as_ref()` of either function:
\* the node, or the end of the list.
LoadNode(t) ==
    /\ threads.callers[t].pc \in {"a_load", "d_load"}
    /\ LET c == threads.callers[t]
           node == LoadCur(c.cur)
           alloc == c.pc = "a_load" IN
       threads' = SetCaller(t, [c EXCEPT
                      !.node = node,
                      !.pc = IF node = NULL
                             THEN (IF alloc THEN "a_fetch" ELSE "d_write")
                             ELSE (IF alloc THEN "a_lock" ELSE "d_lock")])
    /\ UNCHANGED <<segments, index, free_pages, nodes, provided, calls>>
    /\ ConcUnchanged

\* node.pages.try_lock(): the lock is taken when it is free; a held lock is
\* given up at once and the caller goes on to `cur = &node.next`.
try_lock(c, locked) ==
    IF c.node \in locked
    THEN [caller |-> [c EXCEPT !.cur = c.node,
                               !.pc = IF c.pc = "a_lock" THEN "a_load" ELSE "d_load"],
          locked |-> locked]
    ELSE [caller |-> [c EXCEPT !.pc = IF c.pc = "a_lock" THEN "a_pop" ELSE "d_push"],
          locked |-> locked \cup {c.node}]

TryLock(t) ==
    /\ threads.callers[t].pc \in {"a_lock", "d_lock"}
    /\ \E r \in {try_lock(threads.callers[t], threads.locked)} :
         threads' = [SetCaller(t, r.caller) EXCEPT !.locked = r.locked]
    /\ UNCHANGED <<segments, index, free_pages, nodes, provided, calls>>
    /\ ConcUnchanged

\* pages.pop() under the lock of allocate: the frame is returned, or the
\* guard is dropped and the caller goes on to the next node.
Pop(t) ==
    /\ threads.callers[t].pc = "a_pop"
    /\ LET c == threads.callers[t]
           pg == nodes[c.node].pages IN
       IF Len(pg) > 0
       THEN /\ nodes' = [nodes EXCEPT ![c.node].pages = SubSeq(pg, 1, Len(pg) - 1)]
            /\ threads' = [SetCaller(t, [c EXCEPT !.pc = "idle", !.res = "ok",
                                                 !.held = Append(@, pg[Len(pg)])])
                             EXCEPT !.locked = @ \ {c.node},
                                    !.freed = @ \ {pg[Len(pg)]}]
       ELSE /\ nodes' = nodes
            /\ threads' = [SetCaller(t, [c EXCEPT !.pc = "a_load", !.cur = c.node])
                             EXCEPT !.locked = @ \ {c.node}]
    /\ UNCHANGED <<segments, index, free_pages, provided, calls>>
    /\ ConcUnchanged

\* pages.push(addr) under the lock of deallocate: success, or the guard is
\* dropped and the caller goes on to the next node.
Push(t) ==
    /\ threads.callers[t].pc = "d_push"
    /\ LET c == threads.callers[t]
           pg == nodes[c.node].pages IN
       IF Len(pg) < MAX_PAGES
       THEN /\ nodes' = [nodes EXCEPT ![c.node].pages = Append(pg, c.addr)]
            /\ threads' = [SetCaller(t, [c EXCEPT !.pc = "idle", !.res = "ok"])
                             EXCEPT !.locked = @ \ {c.node},
                                    !.freed = @ \cup {c.addr}]
       ELSE /\ nodes' = nodes
            /\ threads' = [SetCaller(t, [c EXCEPT !.pc = "d_load", !.cur = c.node])
                             EXCEPT !.locked = @ \ {c.node}]
    /\ UNCHANGED <<segments, index, free_pages, provided, calls>>
    /\ ConcUnchanged

\* self.index.fetch_add(1, Relaxed) of PageProvider::allocate.
FetchAdd(t) ==
    /\ threads.callers[t].pc = "a_fetch"
    /\ threads' = SetCaller(t, [threads.callers[t] EXCEPT !.pc = "a_scan", !.page_index = index])
    /\ index' = index + 1
    /\ calls' = calls + 1
    /\ UNCHANGED <<segments, free_pages, nodes, provided>>
    /\ ConcUnchanged

\* The scan of the segments of PageProvider::allocate and, when no segment
\* holds the ordinal, the store into the counter.
Scan(t) ==
    /\ threads.callers[t].pc = "a_scan"
    /\ LET c == threads.callers[t]
           r == PageProvider_allocate(segments, c.page_index) IN
       IF r.ok
       THEN /\ threads' = SetCaller(t, [c EXCEPT !.pc = "idle", !.res = "ok",
                                                !.held = Append(@, r.addr)])
            /\ provided' = Append(provided, r.addr)
            /\ index' = index
       ELSE /\ threads' = SetCaller(t, [c EXCEPT !.pc = "idle", !.res = "oom"])
            /\ provided' = provided
            /\ index' = r.index
    /\ UNCHANGED <<segments, free_pages, nodes, calls>>
    /\ ConcUnchanged

\* page_node_ptr.write(FreePageListNode::new()): the frame becomes a node
\* with a free lock.
WriteNode(t) ==
    /\ threads.callers[t].pc = "d_write"
    /\ LET c == threads.callers[t] IN
       /\ nodes' = [x \in DOMAIN nodes \cup {c.addr} |->
                      IF x = c.addr THEN FreePageListNode_new ELSE nodes[x]]
       /\ threads' = [SetCaller(t, [c EXCEPT !.pc = "d_store"]) EXCEPT !.locked = @ \ {c.addr}]
    /\ UNCHANGED <<segments, index, free_pages, provided, calls>>
    /\ ConcUnchanged

\* cur.store(page_node_ptr, Release), and deallocate returns.
StoreCur(t) ==
    /\ threads.callers[t].pc = "d_store"
    /\ LET c == threads.callers[t] IN
       /\ IF c.cur = NULL
          THEN free_pages' = c.addr /\ nodes' = nodes
          ELSE free_pages' = free_pages /\ nodes' = [nodes EXCEPT ![c.cur].next = c.addr]
       /\ threads' = [SetCaller(t, [c EXCEPT !.pc = "idle", !.res = "ok"])
                        EXCEPT !.freed = @ \cup {c.addr}]
    /\ UNCHANGED <<segments, index, provided, calls>>
    /\ ConcUnchanged

\* One access of a caller that is inside a call.
CallerStep(t) ==
    \/ LoadNode(t) \/ TryLock(t) \/ Pop(t) \/ Push(t)
    \/ FetchAdd(t) \/ Scan(t) \/ WriteNode(t) \/ StoreCur(t)

NextConcurrent ==
    \/ \E t \in Callers : StartAllocate(t)
    \/ \E t \in Callers : StartDeallocate(t)
    \/ \E t \in Callers : LoadNode(t)
    \/ \E t \in Callers : TryLock(t)
    \/ \E t \in Callers : Pop(t)
    \/ \E t \in Callers : Push(t)
    \/ \E t \in Callers : FetchAdd(t)
    \/ \E t \in Callers : Scan(t)
    \/ \E t \in Callers : WriteNode(t)
    \/ \E t \in Callers : StoreCur(t)

SpecConcurrent == InitConcurrent /\ [][NextConcurrent]_vars

\* The first CPU keeps executing while it is inside a call; nothing is
\* promised about the other CPUs, which may stop anywhere, also while
\* holding a node's lock.
SpecConcurrentFair ==
    InitConcurrent /\ [][NextConcurrent]_vars /\ WF_vars(CallerStep(1))

\* The nodes reachable from a pointer.
RECURSIVE ReachableNodes(_, _, _)
ReachableNodes(ptr, nds, seen) ==
    IF ptr = NULL \/ ptr \in seen \/ ptr \notin DOMAIN nds THEN seen
    ELSE ReachableNodes(nds[ptr].next, nds, seen \cup {ptr})

\* The frames the free list holds: its nodes and what their arrays store.
InFreeList ==
    LET reach == ReachableNodes(free_pages, nodes, {}) IN
    reach \cup UNION { Range(nodes[n].pages) : n \in reach }

\* Every call has returned.
Quiescent == \A t \in Callers : threads.callers[t].pc = "idle"

\* ------------------------------------------------------------------------
\* Claims on the paging setup and the bootstrap.
\* ------------------------------------------------------------------------

\* The size in bytes of the page a mapping operation writes.
PageSizeOf(op) ==
    IF op = "map_1g" THEN ONE_GIGABYTE ELSE IF op = "map_2m" THEN TWO_MEGABYTES
    ELSE FOUR_KILOBYTES

\* C21: at each step of mapping a range a 1 GiB page is used only if the
\* current addresses and the remaining length are 1 GiB-aligned, a 2 MiB
\* page only if they are 2 MiB-aligned; no huge page is written for a
\* virtual or physical address that is not aligned to its size.
C21_LargestAlignedPage ==
    [][(/\ paging.pc \in {"identity", "kernel"}
        /\ last'.op \in {"map_1g", "map_2m"}
        /\ last'.res = "ok")
          => /\ paging.range.virt % PageSizeOf(last'.op) = 0
             /\ paging.range.phys % PageSizeOf(last'.op) = 0
             /\ paging.range.amount % PageSizeOf(last'.op) = 0]_vars

\* C22 as stated: the steps finish in the order logger, boot information,
\* system-info record, page provider, page tables built and installed,
\* page allocator, GDT/IDT/SYSCALL and LAPIC, interrupts, init process.
C22_StatedOrder ==
    LET stated == <<"logger", "boot_info", "sys_info", "provider", "page_table_built",
                    "page_table_installed", "allocator", "gdt", "idt", "syscall", "lapic",
                    "interrupts", "init">> IN
    \A i, j \in 1..Len(boot.log) :
        i < j => PositionIn(stated, boot.log[i]) < PositionIn(stated, boot.log[j])

\* C22, amended: the steps finish in the order logger, boot information,
\* page provider, system-info record, GDT, IDT, SYSCALL, LAPIC, page tables
\* built, page allocator published, page tables installed, interrupts
\* enabled, init process; each at most once, none before the one before it.
C22_BootOrder ==
    IsPrefix(boot.log,
             <<"logger", "boot_info", "provider", "sys_info", "gdt", "idt", "syscall", "lapic",
               "page_table_built", "allocator", "page_table_installed", "interrupts", "init">>)

C22_Witness ==
    /\ boot.pc = "ring3"
    /\ Len(boot.log) = 13
    /\ boot.log[3] = "provider"
    /\ boot.log[13] = "init"

\* C23: the system-info record is written exactly once during bootstrap,
\* before any component that reads it runs (every read sees the published
\* record, never the uninitialized cell), and is never modified afterwards.
C23_SysInfoWrittenOnce ==
    /\ [](/\ boot.sys_info.writes <= 1
          /\ \A i \in 1..Len(boot.read) : boot.read[i] = BootSysInfo(boot.env)
          /\ boot.read # <<>> => boot.sys_info.writes = 1)
    /\ [][boot.sys_info.writes = 1 => boot'.sys_info = boot.sys_info]_vars

C23_Witness ==
    /\ boot.pc = "ring3"
    /\ boot.sys_info = [value |-> BootSysInfo(boot.env), writes |-> 1]
    /\ Len(boot.read) = 2

\* The steps that come after the boot information is obtained.
LaterSteps ==
    {"provider", "sys_info", "gdt", "idt", "syscall", "lapic", "page_table_built", "allocator",
     "page_table_installed", "interrupts", "init"}

\* C24: if the kernel address, the memory map, the HHDM offset or the
\* nd_init module is missing, the bootstrap halts with interrupts masked
\* and no later step is executed: the system-info record is not published,
\* no table is installed, the allocator is not published.
C24_MissingResponseHalts ==
    (/\ boot.pc \notin {"off", "logger", "responses"}
     /\ (~boot.env.kernel_addr \/ ~boot.env.memmap \/ ~boot.env.hhdm \/ ~boot.env.nd_init))
        => /\ boot.pc = "halted"
           /\ ~boot.iflag
           /\ Range(boot.log) \cap LaterSteps = {}
           /\ boot.sys_info = Uninit

C24_Witness ==
    /\ boot.pc = "halted"
    /\ ~boot.env.nd_init
    /\ boot.env.kernel_addr /\ boot.env.memmap /\ boot.env.hhdm /\ boot.env.virt_base_matches
    /\ boot.log = <<"logger">>

\* C25: while a log record is being written to the serial port the CPU
\* interrupt flag is clear, for every record and whatever the flag was when
\* the logger was called: no byte goes out with the flag set and no
\* interrupt is served between two bytes.
C25_WriteWithInterruptsMasked ==
    /\ cpu.pc = "write" => ~cpu.iflag
    /\ cpu.bytes_with_if = 0
    /\ cpu.in_write = 0

C25_Witness ==
    /\ cpu.pc = "write"
    /\ cpu.restore_interrupts
    /\ cpu.left = 1
    /\ cpu.records = 1
    /\ cpu.interrupts = MaxInterrupts

\* ------------------------------------------------------------------------
\* Claims on the page allocator under concurrency.
\* ------------------------------------------------------------------------

\* C26: under any interleaving of concurrent deallocate calls on distinct
\* frames, once all calls have returned every deallocated frame is stored
\* in the pages array of a node reachable from the free-list head or is
\* itself such a node: no frame and no node is lost.
C26_NoFrameLost ==
    Quiescent => threads.freed \subseteq InFreeList

\* C27: under any interleaving of concurrent allocate and deallocate
\* calls, no frame is held by two callers at the same time, and no caller
\* holds a frame twice.
C27_NoFrameHeldTwice ==
    /\ \A t \in Callers :
         \A i, j \in 1..Len(threads.callers[t].held) :
            i # j => threads.callers[t].held[i] # threads.callers[t].held[j]
    /\ \A t1, t2 \in Callers :
         t1 # t2 => Range(threads.callers[t1].held) \cap Range(threads.callers[t2].held) = {}

\* C28: allocate and deallocate never wait for a node's lock: a call of a
\* CPU that keeps executing returns, whatever the other CPUs do and also
\* when they hold node locks forever.
C28_CallReturns ==
    (threads.callers[1].pc # "idle") ~> (threads.callers[1].pc = "idle")

\* ------------------------------------------------------------------------
\* Claims on the small-object allocator behind its mutex.
\* ------------------------------------------------------------------------

\* C29: with a single caller, every allocate, deallocate, grow and
\* grow_zeroed call on the small-object allocator returns: no call stands
\* at a turn of the loop over the slab-node list that leaves everything as
\* it was, the first node being full, and no call stands at the lock of
\* the allocator's mutex while it holds that mutex itself.
C29_CallReturns ==
    /\ threads.pc = "allocate_push" => push_turn(slab_list) # "again"
    /\ threads.pc = "allocate_lock" => Mutex_lock(threads.head_locked)

\* C30: the block grow returns satisfies the placement guarantee of
\* allocate for the new layout: its pointer is aligned to the new alignment
\* and its new-size bytes lie inside one slab page, also when the block was
\* extended in place.
C30_GrowPlacement ==
    (last.op = "slab_grow" /\ last.res = "ok") =>
        /\ last.addr % last.align = 0
        /\ (last.addr % PAGE_SIZE) + last.size <= PAGE_SIZE

\* C31: when the whole list misses and a page comes from PageMeta::new, the
\* allocation placed at slot 0 of that page does not fail for any slot
\* count n in 1..64, and the page's state is exactly the slots 0..n-1 (all
\* 64 bits for a request of 4096 bytes).
C31_FreshPageSlotZero ==
    (last.op = "slab_allocate" /\ last.new_page) =>
        /\ last.res # "panic"
        /\ last.res = "ok" =>
              \E pg \in SlabPages :
                  /\ pg.page = last.addr
                  /\ pg.state = 0..(SlotCount(last.size) - 1)

\* C32: after a deallocate call has returned, no slab page whose state is
\* zero is still recorded in the allocator's list: the deallocation that
\* clears a page's last bit removes the page's metadata from its node.
C32_NoEmptyPageRecorded ==
    (last.op = "slab_deallocate" /\ last.res = "ok") =>
        \A pg \in SlabPages : pg.state # {}

\* C33: a PageBox hands its frame to destroy_box exactly once, in Drop or
\* in into_inner and never in both, after which the box is gone; a
\* constructor that fails leaves no box and so holds no frame, one that
\* succeeds holds the frame it was given.
C33_FrameReturnedOnce ==
    [][/\ (last'.op = "box_new" /\ last'.res # "ok") => boxes' = boxes
       /\ (last'.op = "box_new" /\ last'.res = "ok") => boxes' = Append(boxes, last'.addr)
       /\ (last'.op \in {"box_drop", "box_into_inner"}) =>
            /\ last'.returned = <<last'.addr>>
            /\ last'.res = "ok" =>
                  \E i \in 1..Len(boxes) :
                      boxes[i] = last'.addr /\ boxes' = Remove(boxes, i)]_vars

\* A box was consumed by into_inner and its frame went back once.
C33_Witness ==
    /\ last.op = "box_into_inner"
    /\ last.res = "ok"
    /\ last.returned = <<last.addr>>

\* ------------------------------------------------------------------------
\* The owned address space (paging/owned_mapper.rs): a PML4 from the page
\* allocator, leaf frames from the page allocator, tables from the page
\* provider behind it.  offset_by_hhdm is the identity: a table is read and
\* written at its physical address.
\* ------------------------------------------------------------------------

\* Greatest number of operations on the owned address space.
MaxOwnedOps == 3

\* Greatest `count` of a load.
MaxLoadPages == 2

\* 0, 0x1000, 0x20_0000: two pages of one table and a page of another.
OwnedVirts == {0, 4096, 2097152}

\* The flags callers pass for the directories.
OwnedParentFlags == BitOr(BitOr(PRESENT, WRITABLE), USER_ACCESSIBLE)

\* page_allocator.page_provider(): the provider inside the allocator.
page_provider(st) ==
    [segments |-> st.segments, index |-> st.index, provided |-> st.provided, calls |-> st.calls]

\* The allocator once its provider went from page_provider(st) to ps.
WithProvider(st, ps) ==
    [st EXCEPT !.index = ps.index, !.provided = ps.provided, !.calls = ps.calls]

\* get_directory_entry of the mapping module: as in identity_map.rs, with
\* the flags of a directory entry it makes given by the caller.
mapping_get_directory_entry(ps, tbls, page_table, i, flags) ==
    LET entry == Get(tbls, page_table, i) IN
    IF ~Contains(PageTableEntry_flags(entry), PRESENT) THEN
        LET a == provider_allocate(ps) IN
        IF ~a.ok THEN [res |-> "oom", ps |-> a.ps, tbls |-> tbls, addr |-> 0]
        ELSE [res |-> "ok", ps |-> a.ps,
              tbls |-> Put(Zero(tbls, a.addr), page_table, i,
                           PageTableEntry_new(a.addr, flags)),
              addr |-> a.addr]
    ELSE IF Contains(PageTableEntry_flags(entry), HUGE_PAGE)
    THEN [res |-> "already_mapped", ps |-> ps, tbls |-> tbls, addr |-> 0]
    ELSE [res |-> "ok", ps |-> ps, tbls |-> tbls, addr |-> PageTableEntry_addr(entry)]

\* The three get_directory_entry calls of map_4k, each on the table the
\* one before returned; the first error ends the walk.
RECURSIVE mapping_directories(_, _, _, _, _)
mapping_directories(ps, tbls, table, idxs, flags) ==
    IF idxs = <<>> THEN [res |-> "ok", ps |-> ps, tbls |-> tbls, addr |-> table]
    ELSE LET e == mapping_get_directory_entry(ps, tbls, table, Head(idxs), flags) IN
         IF e.res # "ok" THEN e
         ELSE mapping_directories(e.ps, e.tbls, e.addr, Tail(idxs), flags)

\* map_4k of the mapping module (pml4, provider, map, virt, phys,
\* parent_flags, flags).
mapping_map_4k(ps, tbls, pml4, virt, phys, pflags, flags) ==
    LET pde == mapping_directories(ps, tbls, pml4,
                                   <<pml4e_index(virt), pdpte_index(virt), pde_index(virt)>>,
                                   pflags) IN
    IF pde.res # "ok" THEN [res |-> pde.res, ps |-> pde.ps, tbls |-> pde.tbls]
    ELSE IF get_page_entry(pde.tbls, pde.addr, pte_index(virt)) # "ok"
    THEN [res |-> "already_mapped", ps |-> pde.ps, tbls |-> pde.tbls]
    ELSE [res |-> "ok", ps |-> pde.ps,
          tbls |-> Put(pde.tbls, pde.addr, pte_index(virt), PageTableEntry_new(phys, flags))]

\* OwnedMapper::allocate_mapping: the frame is taken first, then map_4k is
\* tried; `?` returns its error as it is.  `taken` lists the frames the
\* call took from the allocator and the provider.  (a: the result of
\* page_allocator.allocate(), m: the result of map_4k.)
OwnedMapper_allocate_mapping(st, tbls, pml4, virt, pflags, flags) ==
    CHOOSE r \in
        { IF a.res # "ok"
          THEN [res |-> a.res, st |-> a.st, tbls |-> tbls, phys |-> 0, taken |-> <<>>]
          ELSE CHOOSE q \in
                 { [res |-> m.res, st |-> WithProvider(a.st, m.ps), tbls |-> m.tbls,
                    phys |-> a.addr,
                    taken |-> <<a.addr>> \o SubSeq(m.ps.provided, Len(a.st.provided) + 1,
                                                  Len(m.ps.provided))]
                   : m \in {mapping_map_4k(page_provider(a.st), tbls, pml4, virt, a.addr,
                                           BitOr(pflags, OWNED), BitOr(flags, OWNED))} } : TRUE
          : a \in {PageAllocator_allocate(st)} } : TRUE

\* OwnedMapper::load_with: `count` pages from virt on, stopping at the
\* first error; the pages mapped before it stay mapped.
RECURSIVE OwnedMapper_load_with(_, _, _, _, _, _, _, _)
OwnedMapper_load_with(st, tbls, pml4, virt, count, flags, pflags, taken) ==
    IF count = 0 THEN [res |-> "ok", st |-> st, tbls |-> tbls, taken |-> taken]
    ELSE CHOOSE q \in
           { IF r.res # "ok"
             THEN [res |-> r.res, st |-> r.st, tbls |-> r.tbls, taken |-> taken \o r.taken]
             ELSE OwnedMapper_load_with(r.st, r.tbls, pml4, virt + 4096, count - 1, flags,
                                        pflags, taken \o r.taken)
             : r \in {OwnedMapper_allocate_mapping(st, tbls, pml4, virt, pflags, flags)} } : TRUE

InitOwned ==
    /\ usable \in MapperMemoryMaps
    /\ SetPageStateInit(usable)
    /\ held = <<>>
    /\ boxes = <<>>
    /\ last = NoOp
    /\ NoMapper
    /\ NoSlab
    /\ NoSyscall
    /\ NoPaging
    /\ NoBootstrap
    /\ NoLogger
    /\ NoThreads
    /\ NoContainer

\* OwnedMapper::new
OwnedNew ==
    /\ ~Hung
    /\ mapper = "none"
    /\ \E r \in {PageAllocator_allocate(PageState)} :
        /\ SetPageState(r.st)
        /\ mapper' = IF r.res = "ok" THEN "live" ELSE mapper
        /\ l4_table' = IF r.res = "ok" THEN r.addr ELSE l4_table
        /\ tables' = IF r.res = "ok" THEN Zero(tables, r.addr) ELSE tables
        /\ mapper_allocs' = IF r.res = "ok" THEN <<r.addr>> ELSE mapper_allocs
        /\ last' = [op |-> "owned_new", res |-> r.res, addr |-> r.addr, fresh |-> r.fresh,
                    virt |-> 0]
    /\ ops' = ops + 1
    /\ UNCHANGED <<bootVars, sysVars, usable, held, boxes, dropped, slabVars>>

\* OwnedMapper::allocate_mapping(virt, parent_flags, flags)
OwnedAllocateMapping ==
    /\ ~Hung
    /\ mapper = "live"
    /\ ops < MaxOwnedOps
    /\ \E v \in OwnedVirts, flags \in LeafFlags :
        \E r \in {OwnedMapper_allocate_mapping(PageState, tables, l4_table, v,
                                               OwnedParentFlags, flags)} :
        /\ SetPageState(r.st)
        /\ tables' = r.tbls
        /\ mapper_allocs' = mapper_allocs \o r.taken
        /\ last' = [op |-> "owned_allocate_mapping", res |-> r.res, addr |-> r.phys,
                    fresh |-> FALSE, virt |-> v, taken |-> r.taken]
    /\ ops' = ops + 1
    /\ UNCHANGED <<bootVars, sysVars, usable, held, boxes, mapper, l4_table, dropped, slabVars>>

\* OwnedMapper::load_uninit(virt, count, flags, parent_flags)
OwnedLoad ==
    /\ ~Hung
    /\ mapper = "live"
    /\ ops < MaxOwnedOps
    /\ \E v \in OwnedVirts, count \in 1..MaxLoadPages, flags \in LeafFlags :
        \E r \in {OwnedMapper_load_with(PageState, tables, l4_table, v, count, flags,
                                        OwnedParentFlags, <<>>)} :
        /\ SetPageState(r.st)
        /\ tables' = r.tbls
        /\ mapper_allocs' = mapper_allocs \o r.taken
        /\ last' = [op |-> "owned_load", res |-> r.res, addr |-> 0,
                    fresh |-> FALSE, virt |-> v, taken |-> r.taken]
    /\ ops' = ops + 1
    /\ UNCHANGED <<bootVars, sysVars, usable, held, boxes, mapper, l4_table, dropped, slabVars>>

\* The OwnedMapper goes out of scope.  The type has no Drop implementation
\* and its fields (a PhysAddr and a PageAllocatorTok) have none either:
\* nothing is handed to the page allocator.
OwnedDrop ==
    /\ ~Hung
    /\ mapper = "live"
    /\ mapper' = "dropped"
    /\ dropped' = <<>>
    /\ last' = [op |-> "owned_drop", res |-> "ok", addr |-> l4_table, fresh |-> FALSE,
                virt |-> 0]
    /\ UNCHANGED <<bootVars, sysVars, usable, segments, index, free_pages, nodes, provided,
                   calls, held, boxes, l4_table, tables, mapper_allocs, ops, slabVars>>

NextOwned == OwnedNew \/ OwnedAllocateMapping \/ OwnedLoad \/ OwnedDrop

SpecOwned == InitOwned /\ [][NextOwned]_vars

\* Frame f is referred to by an entry carrying the owned bit in a table of
\* the address space.
RecordedOwned(f) ==
    \E t \in DOMAIN tables : \E i \in DOMAIN tables[t] :
        /\ PageTableEntry_addr(tables[t][i]) = f
        /\ Contains(PageTableEntry_flags(tables[t][i]), OWNED)

\* Frame f is back in the page allocator's free list.
Returned(f) == f \in FreeListNodes \/ InPagesOf(f) > 0

\* C34: when allocate_mapping returns AlreadyMapped or OutOfMemory, every
\* frame the call took from the page allocator or the provider has been
\* returned or is recorded in the tables with the owned flag.
C34_ErrorLeaksNoFrame ==
    (last.op = "owned_allocate_mapping" /\ last.res \in {"already_mapped", "oom"}) =>
        \A k \in 1..Len(last.taken) :
            Returned(last.taken[k]) \/ RecordedOwned(last.taken[k])

\* C35: once the OwnedMapper has been dropped, every frame it mapped with
\* the owned bit, also the pages of a load that failed partway, is back in
\* the page allocator.
C35_DropFreesOwned ==
    (last.op = "owned_drop") =>
        \A k \in 1..Len(mapper_allocs) :
            RecordedOwned(mapper_allocs[k]) => Returned(mapper_allocs[k])

\* C36: during the bootstrap the interrupt flag is set only once the
\* GDT/TSS, the IDT, the SYSCALL registers and the LAPIC have been
\* configured; no earlier statement, the logger calls made with the flag
\* clear included, sets it.
C36_InterruptsAfterTables ==
    boot.iflag => {"gdt", "idt", "syscall", "lapic"} \subseteq Range(boot.log)

\* The bootstrap has executed its sti, after records were logged with the
\* flag clear.
C36_Witness ==
    /\ boot.iflag
    /\ boot.pc = "init"
    /\ boot.log[1] = "logger"

\* ------------------------------------------------------------------------
\* The spin mutex (utility/spin/src/mutex.rs) with two CPUs, one atomic
\* access at a time.  `threads` is the lock word, the guards made and
\* released so far, and for each CPU where it stands in lock(), how many
\* MutexLock values it holds and whether its guard went through map.
\* ------------------------------------------------------------------------

\* Greatest number of lock() calls of one CPU.
MaxLockCalls == 2

IdleLocker == [pc |-> "idle", guards |-> 0, mapped |-> FALSE, calls |-> 0]

InitMutex ==
    /\ usable = <<>>
    /\ SetPageStateInit(usable)
    /\ held = <<>>
    /\ boxes = <<>>
    /\ last = NoOp
    /\ NoMapper
    /\ NoSlab
    /\ NoSyscall
    /\ NoPaging
    /\ NoBootstrap
    /\ NoLogger
    /\ threads = [lock |-> FALSE, acquired |-> 0, released |-> 0,
                  th |-> [t \in Callers |-> IdleLocker]]
    /\ NoContainer

MutexUnchanged ==
    UNCHANGED <<paging, boot, cpu, container, sysVars, usable, segments, index, free_pages, nodes,
                provided, calls, held, boxes, last, mapperVars, slabVars>>

\* self.lock.compare_exchange_weak(false, true, Acquire, Relaxed): the
\* weak form may fail although the word holds `false`.
compare_exchange_weak(lock, spurious) ==
    IF lock = FALSE /\ ~spurious THEN [ok |-> TRUE, lock |-> TRUE]
    ELSE [ok |-> FALSE, lock |-> lock]

\* MutexLock::map where the guard passed in is dropped at the end.
MutexLock_map_dropping(lock) == [lock |-> FALSE, guards |-> 1]

\* MutexLock::map: the guard passed in is wrapped in ManuallyDrop, its two
\* fields are read out into the guard returned; the lock word is not
\* touched and one guard is left.
MutexLock_map(lock) == [lock |-> lock, guards |-> 1]

\* Drop for MutexLock: self.lock.store(false, Release).
MutexLock_drop(lock) == FALSE

\* A CPU calls Mutex::lock.
MutexLockCall(t) ==
    /\ threads.th[t].pc = "idle"
    /\ threads.th[t].guards = 0
    /\ threads.th[t].calls < MaxLockCalls
    /\ threads' = [threads EXCEPT !.th[t].pc = "cas", !.th[t].calls = @ + 1]
    /\ MutexUnchanged

\* The condition of the outer loop of Mutex::lock: on success the guard is
\* built and returned, on failure the inner loop is entered.
CompareExchange(t) ==
    /\ threads.th[t].pc = "cas"
    /\ \E spurious \in BOOLEAN :
        \E r \in {compare_exchange_weak(threads.lock, spurious)} :
            threads' = IF r.ok
                       THEN [threads EXCEPT !.lock = r.lock, !.acquired = @ + 1,
                                            !.th[t].pc = "held", !.th[t].guards = @ + 1,
                                            !.th[t].mapped = FALSE]
                       ELSE [threads EXCEPT !.lock = r.lock, !.th[t].pc = "spin"]
    /\ MutexUnchanged

\* The inner loop of Mutex::lock: while self.is_locked() { spin_loop() }.
SpinLoad(t) ==
    /\ threads.th[t].pc = "spin"
    /\ threads' = IF threads.lock THEN threads ELSE [threads EXCEPT !.th[t].pc = "cas"]
    /\ MutexUnchanged

\* The holder passes its guard to MutexLock::map.
MapGuard(t) ==
    /\ threads.th[t].pc = "held"
    /\ ~threads.th[t].mapped
    /\ \E r \in {MutexLock_map(threads.lock)} :
        threads' = [threads EXCEPT !.lock = r.lock, !.th[t].guards = r.guards,
                                   !.th[t].mapped = TRUE]
    /\ MutexUnchanged

\* The holder's guard goes out of scope.
DropGuard(t) ==
    /\ threads.th[t].pc = "held"
    /\ threads' = [threads EXCEPT !.lock = MutexLock_drop(@), !.released = @ + 1,
                                  !.th[t].pc = "idle", !.th[t].guards = @ - 1]
    /\ MutexUnchanged

NextMutex ==
    \/ \E t \in Callers : MutexLockCall(t)
    \/ \E t \in Callers : CompareExchange(t)
    \/ \E t \in Callers : SpinLoad(t)
    \/ \E t \in Callers : MapGuard(t)
    \/ \E t \in Callers : DropGuard(t)

SpecMutex == InitMutex /\ [][NextMutex]_vars

\* The MutexLock values that exist.
Guards == threads.th[1].guards + threads.th[2].guards

\* C37: under every interleaving at most one MutexLock exists; a CPU has
\* left lock() with a guard only while the lock word is set; and every
\* guard that is gone, mapped or not, released the lock exactly once.
C37_OneGuard ==
    /\ Guards <= 1
    /\ \A t \in Callers : threads.th[t].pc = "held" => threads.lock /\ threads.th[t].guards = 1
    /\ threads.released = threads.acquired - Guards

\* One CPU holds a guard produced by map while the other spins in lock(),
\* after a guard has already been dropped.
C37_Witness ==
    /\ threads.th[1].pc = "held"
    /\ threads.th[1].mapped
    /\ threads.th[2].pc = "spin"
    /\ threads.released > 0

\* ------------------------------------------------------------------------
\* BinaryHeap<T, N> (utility/array/src/binary_heap.rs) over Vec<T, N>.
\* container.data is the backing array of the Vec, cell 0 .. N - 1, with
\* whatever a cell beyond `len` was left with (0: never written);
\* container.pending counts, for each element, how many were pushed and
\* not popped yet.
\* ------------------------------------------------------------------------

\* N, the capacity of the heap.
HeapCapacity == 4

\* The elements are 1 .. MaxElem.
MaxElem == 3

\* Greatest number of push and pop calls in one behaviour.
MaxHeapOps == 6

Elems == 1..MaxElem

InitHeap ==
    /\ usable = <<>>
    /\ SetPageStateInit(usable)
    /\ held = <<>>
    /\ boxes = <<>>
    /\ last = NoOp
    /\ NoMapper
    /\ debug_build \in BOOLEAN
    /\ slab_list = <<>>
    /\ live = <<>>
    /\ mem = <<>>
    /\ NoSyscall
    /\ NoPaging
    /\ NoBootstrap
    /\ NoLogger
    /\ NoThreads
    /\ container = [data |-> [i \in 0..(HeapCapacity - 1) |-> 0], len |-> 0,
                    pending |-> [e \in Elems |-> 0], calls |-> 0]

HeapUnchanged ==
    UNCHANGED <<paging, boot, cpu, threads, sysVars, usable, segments, index, free_pages, nodes,
                provided, calls, held, boxes, mapperVars, debug_build, slab_list, live, mem>>

\* Hole::new(data, pos): the element at pos is read out.
Hole_new(data, pos) == [data |-> data, pos |-> pos, elem |-> data[pos], panic |-> FALSE]

\* Hole::get(index) on a slice of `len` elements: the two debug_assert!s,
\* then get_unchecked, which is out of bounds for index >= len.
Hole_get(hole, at, len, debug) ==
    IF debug /\ (at = hole.pos \/ at >= len) THEN [panic |-> TRUE, oob |-> FALSE]
    ELSE [panic |-> FALSE, oob |-> at >= len]

\* Hole::move_to(new_pos) on a slice of `len` elements.
Hole_move_to(hole, new_pos, len, debug) ==
    IF debug /\ (new_pos >= len \/ new_pos = hole.pos) THEN [hole EXCEPT !.panic = TRUE]
    ELSE [hole EXCEPT !.data[hole.pos] = hole.data[new_pos], !.pos = new_pos]

\* Drop for Hole: the element goes into the hole.
Hole_drop(hole) == [hole.data EXCEPT ![hole.pos] = hole.elem]

\* The loop of sift_up on a hole.
RECURSIVE sift_up_loop(_, _, _, _)
sift_up_loop(hole, start, len, debug) ==
    IF hole.panic \/ ~(hole.pos > start) THEN hole
    ELSE LET parent == (hole.pos - 1) \div 2 IN
         IF Hole_get(hole, parent, len, debug).panic THEN [hole EXCEPT !.panic = TRUE]
         ELSE IF hole.elem <= hole.data[parent] THEN hole
         ELSE sift_up_loop(Hole_move_to(hole, parent, len, debug), start, len, debug)

\* BinaryHeap::sift_up(start, pos) on a Vec of `len` elements.
sift_up(data, len, start, pos, debug) ==
    IF debug /\ ~(pos < len) THEN [panic |-> TRUE, data |-> data]
    ELSE LET hole == sift_up_loop(Hole_new(data, pos), start, len, debug) IN
         [panic |-> hole.panic, data |-> IF hole.panic THEN data ELSE Hole_drop(hole)]

\* The loop of sift_down_to_bottom, `while child < end`: the greater child
\* moves up.  A comparison that reads a cell outside the slice has the
\* outcome `ub`.
RECURSIVE sift_down_loop(_, _, _, _, _)
sift_down_loop(hole, child, end, debug, ub) ==
    IF hole.panic \/ ~(child < end) THEN [hole |-> hole, child |-> child]
    ELSE
        LET a == Hole_get(hole, child, end, debug)
            b == Hole_get(hole, child + 1, end, debug)
            le == IF a.oob \/ b.oob THEN ub ELSE hole.data[child] <= hole.data[child + 1]
            c == child + (IF le THEN 1 ELSE 0)
        IN
        IF a.panic \/ b.panic THEN [hole |-> [hole EXCEPT !.panic = TRUE], child |-> child]
        ELSE sift_down_loop(Hole_move_to(hole, c, end, debug), 2 * c + 1, end, debug, ub)

\* BinaryHeap::sift_down_to_bottom(pos) on a Vec of `len` elements.
sift_down_to_bottom(data, len, pos, debug, ub) ==
    LET end == len
        l == sift_down_loop(Hole_new(data, pos), 2 * pos + 1, end, debug, ub)
        hole == IF ~l.hole.panic /\ l.child = end - 1
                THEN Hole_move_to(l.hole, l.child, end, debug) ELSE l.hole
    IN
    IF hole.panic THEN [panic |-> TRUE, data |-> data]
    ELSE sift_up(Hole_drop(hole), len, pos, hole.pos, debug)

\* BinaryHeap::push(item) on [data, len]: Vec::push, then sift_up(0, index).
BinaryHeap_push(data, len, item, debug) ==
    IF len = HeapCapacity THEN [res |-> "err", data |-> data, len |-> len]
    ELSE LET r == sift_up([data EXCEPT ![len] = item], len + 1, 0, len, debug) IN
         IF r.panic THEN [res |-> "panic", data |-> data, len |-> len]
         ELSE [res |-> "ok", data |-> r.data, len |-> len + 1]

\* BinaryHeap::pop() on [data, len]: None, pop_unchecked, or
\* swap_remove_unchecked(0) followed by sift_down_to_bottom(0).
BinaryHeap_pop(data, len, debug, ub) ==
    IF len = 0 THEN [res |-> "none", value |-> 0, data |-> data, len |-> len]
    ELSE IF len = 1 THEN [res |-> "some", value |-> data[0], data |-> data, len |-> 0]
    ELSE LET swapped == [data EXCEPT ![0] = data[len - 1]]
             r == sift_down_to_bottom(swapped, len - 1, 0, debug, ub)
         IN IF r.panic THEN [res |-> "panic", value |-> 0, data |-> swapped, len |-> len - 1]
            ELSE [res |-> "some", value |-> data[0], data |-> r.data, len |-> len - 1]

\* heap.push(item)
HeapPush ==
    /\ ~Hung
    /\ container.calls < MaxHeapOps
    /\ \E item \in Elems :
        \E r \in {BinaryHeap_push(container.data, container.len, item, debug_build)} :
        /\ container' = [data |-> r.data, len |-> r.len, calls |-> container.calls + 1,
                         pending |-> IF r.res = "ok"
                                     THEN [container.pending EXCEPT ![item] = @ + 1]
                                     ELSE container.pending]
        /\ last' = [op |-> "heap_push", res |-> r.res, addr |-> 0, fresh |-> FALSE, virt |-> 0,
                    value |-> item]
    /\ HeapUnchanged

\* heap.pop()
HeapPop ==
    /\ ~Hung
    /\ container.calls < MaxHeapOps
    /\ \E ub \in BOOLEAN :
        \E r \in {BinaryHeap_pop(container.data, container.len, debug_build, ub)} :
        /\ container' = [data |-> r.data, len |-> r.len, calls |-> container.calls + 1,
                         pending |-> IF r.res = "some" /\ r.value \in Elems
                                     THEN [container.pending EXCEPT ![r.value] = @ - 1]
                                     ELSE container.pending]
        /\ last' = [op |-> "heap_pop", res |-> r.res, addr |-> 0, fresh |-> FALSE, virt |-> 0,
                    value |-> r.value]
    /\ HeapUnchanged

NextHeap == HeapPush \/ HeapPop

SpecHeap == InitHeap /\ [][NextHeap]_vars

\* The elements pushed and not popped yet.
Pending == {e \in Elems : container.pending[e] > 0}

\* C38: after any sequence of push and pop, a pop returns Some of the
\* greatest element pushed and not yet popped, and None when there is
\* none.
C38_PopGreatest ==
    [][(last'.op = "heap_pop" /\ container'.calls = container.calls + 1) =>
          IF Pending = {} THEN last'.res = "none"
          ELSE /\ last'.res = "some"
               /\ last'.value \in Pending
               /\ \A e \in Pending : e <= last'.value]_vars

\* ------------------------------------------------------------------------
\* Slab<T, N> (utility/array/src/slab.rs): a Vec<Option<T>, N> and the
\* index first_free.  container.data is the Vec, one slot per element:
\* 0 is None, v > 0 is Some(v).
\* ------------------------------------------------------------------------

\* N, the capacity of the slab.
SlabCapacity == 3

\* The values inserted are 1 .. MaxSlabValue.
MaxSlabValue == 2

\* Greatest number of insert and remove calls in one behaviour.
MaxIndexOps == 6

InitIndexSlab ==
    /\ usable = <<>>
    /\ SetPageStateInit(usable)
    /\ held = <<>>
    /\ boxes = <<>>
    /\ last = NoOp
    /\ NoMapper
    /\ NoSlab
    /\ NoSyscall
    /\ NoPaging
    /\ NoBootstrap
    /\ NoLogger
    /\ NoThreads
    /\ container = [data |-> <<>>, first_free |-> 0, calls |-> 0]

\* Slab::is_full
Slab_is_full(data, first_free) == Len(data) = SlabCapacity /\ first_free = Len(data)

\* The loop of insert_unchecked that looks for the next free slot:
\* data.get(first_free) is None past the end of the Vec.
RECURSIVE find_first_free(_, _)
find_first_free(data, first_free) ==
    IF first_free < Len(data) /\ data[first_free + 1] # 0
    THEN find_first_free(data, first_free + 1)
    ELSE first_free

\* Slab::insert_unchecked(value)
Slab_insert_unchecked(data, first_free, value) ==
    IF first_free = Len(data)
    THEN [index |-> Len(data), data |-> Append(data, value), first_free |-> Len(data) + 1]
    ELSE LET stored == [data EXCEPT ![first_free + 1] = value] IN
         [index |-> first_free, data |-> stored,
          first_free |-> find_first_free(stored, first_free + 1)]

\* Slab::insert(value)
Slab_insert(data, first_free, value) ==
    IF Slab_is_full(data, first_free)
    THEN [res |-> "err", index |-> 0, data |-> data, first_free |-> first_free]
    ELSE LET r == Slab_insert_unchecked(data, first_free, value) IN
         [res |-> "ok", index |-> r.index, data |-> r.data, first_free |-> r.first_free]

\* Slab::remove(index) with first_free left as it is.
Slab_remove_keeping(data, first_free, at) ==
    IF at < Len(data)
    THEN [res |-> IF data[at + 1] = 0 THEN "none" ELSE "some", value |-> data[at + 1],
          data |-> [data EXCEPT ![at + 1] = 0], first_free |-> first_free]
    ELSE [res |-> "none", value |-> 0, data |-> data, first_free |-> first_free]

\* Slab::remove(index): first_free is lowered to the index, then the
\* slot, if the Vec has it, is taken.
Slab_remove(data, first_free, at) ==
    LET ff == IF at < first_free THEN at ELSE first_free IN
    IF at < Len(data)
    THEN [res |-> IF data[at + 1] = 0 THEN "none" ELSE "some", value |-> data[at + 1],
          data |-> [data EXCEPT ![at + 1] = 0], first_free |-> ff]
    ELSE [res |-> "none", value |-> 0, data |-> data, first_free |-> ff]

\* slab.insert(value)
SlabInsert ==
    /\ container.calls < MaxIndexOps
    /\ \E value \in 1..MaxSlabValue :
        \E r \in {Slab_insert(container.data, container.first_free, value)} :
        /\ container' = [data |-> r.data, first_free |-> r.first_free,
                         calls |-> container.calls + 1]
        /\ last' = [op |-> "slab_insert", res |-> r.res, addr |-> r.index, fresh |-> FALSE,
                    virt |-> 0, value |-> value]
    /\ HeapUnchanged

\* slab.remove(index), with any index up to one past the capacity
SlabRemove ==
    /\ container.calls < MaxIndexOps
    /\ \E at \in 0..SlabCapacity :
        \E r \in {Slab_remove(container.data, container.first_free, at)} :
        /\ container' = [data |-> r.data, first_free |-> r.first_free,
                         calls |-> container.calls + 1]
        /\ last' = [op |-> "slab_remove", res |-> r.res, addr |-> at, fresh |-> FALSE,
                    virt |-> 0, value |-> r.value]
    /\ HeapUnchanged

NextIndexSlab == SlabInsert \/ SlabRemove

SpecIndexSlab == InitIndexSlab /\ [][NextIndexSlab]_vars

\* The indices of the Vec that hold no value.
EmptySlots == {i \in 0..(Len(container.data) - 1) : container.data[i + 1] = 0}

\* C39: after any sequence of insert and remove, first_free <= data.len()
\* and first_free is the smallest index that holds no value (data.len()
\* when every slot is occupied); an insert stores its value at an index
\* that held none and leaves every other slot as it was.
C39_FirstFreeSmallest ==
    /\ [](/\ container.first_free <= Len(container.data)
          /\ \A i \in EmptySlots : container.first_free <= i
          /\ container.first_free < Len(container.data) =>
                container.first_free \in EmptySlots)
    /\ [][(last'.op = "slab_insert" /\ last'.res = "ok"
             /\ container'.calls = container.calls + 1) =>
            /\ last'.addr < Len(container.data) => container.data[last'.addr + 1] = 0
            /\ container'.data[last'.addr + 1] = last'.value
            /\ \A i \in 1..Len(container.data) :
                  i # last'.addr + 1 => container'.data[i] = container.data[i]]_vars

\* An insert has filled a slot that a remove had emptied, below a slot
\* that still holds its value.
C39_Witness ==
    /\ last.op = "slab_insert"
    /\ last.res = "ok"
    /\ last.addr + 1 < Len(container.data)
    /\ container.first_free = Len(container.data)

====
